---- MODULE Spec2Model ----
(***************************************************************************)
(* Model of the Cinchro FFMPEG-tools job pipeline:                         *)
(*   ffmpeg_tools/database.py     JobDatabaseManager (the job ledger)      *)
(*   ffmpeg_tools/job_manager.py  JobManager (stage executor, pipeline)    *)
(*                                                                         *)
(* A Python string is a sequence of tokens (a token is a TLA+ string that  *)
(* is never split); a status is a single TLA+ string.  Paths, command      *)
(* lines and notes are built by concatenation exactly as the code builds   *)
(* them.                                                                   *)
(***************************************************************************)
EXTENDS Integers, Sequences, FiniteSets, TLC

VARIABLES
    ledger,       \* conversion_jobs table: job_id -> row
    files,        \* local file system: path -> what the file holds
    SSH_KEY_PATH, \* JobManager.SSH_KEY_PATH (NONE when not configured)
    pc,           \* per job id: position of run_job_pipeline
    skip,         \* per job id: skip_cleanup argument of the current run
    job_data,     \* per job id: the row loaded at line 208 of the current run
    res,          \* per job id: outcome of the last subprocess.run
    written,      \* per job id: statuses written by the current run, in order
    calls,        \* per job id: subprocess.run calls of the current run, in order
    absent,       \* per job id: where the current run found the output file missing
    caller,       \* per job id: state of a create_new_job call for this id
    runs,         \* number of pipeline invocations so far
    last_call,    \* the last direct call on the ledger or the path resolver,
                  \* with its arguments and what it returned or raised
    orch,         \* per orchestrator process: position of orchestrator/main.py
    media_files   \* the orchestrator's media_files table: file_path -> row

vars == <<ledger, files, SSH_KEY_PATH, pc, skip, job_data, res, written, calls,
          absent, caller, runs, last_call, orch, media_files>>

----------------------------------------------------------------------------
(* Bounds *)

MaxJobs == 2
MaxRuns == 2
MaxProcs == 3

----------------------------------------------------------------------------
(* Strings as token sequences *)

NONE == <<"<None>">>

Last(s) == s[Len(s)]

\* Python: a in b (substring test)
Contains(s, sub) ==
    \E i \in 1..(Len(s) - Len(sub) + 1) : SubSeq(s, i, i + Len(sub) - 1) = sub

\* Python: s.startswith(p)
StartsWith(s, p) == Len(p) <= Len(s) /\ SubSeq(s, 1, Len(p)) = p

\* index of the last "/" of a path, 0 when there is none
LastSlash(p) ==
    IF \E i \in 1..Len(p) : p[i] = "/"
    THEN CHOOSE i \in 1..Len(p) : p[i] = "/" /\ \A k \in (i+1)..Len(p) : p[k] # "/"
    ELSE 0

\* posixpath.basename
basename(p) == SubSeq(p, LastSlash(p) + 1, Len(p))

RECURSIVE rstripSlash(_)
rstripSlash(s) ==
    IF s # <<>> /\ Last(s) = "/" THEN rstripSlash(SubSeq(s, 1, Len(s) - 1)) ELSE s

\* posixpath.dirname
dirname(p) ==
    LET head == SubSeq(p, 1, LastSlash(p))
    IN  IF head # <<>> /\ (\E i \in 1..Len(head) : head[i] # "/")
        THEN rstripSlash(head)
        ELSE head

\* posixpath.join(a, b)
join(a, b) ==
    IF b # <<>> /\ b[1] = "/" THEN b
    ELSE IF a = <<>> \/ Last(a) = "/" THEN a \o b
    ELSE a \o <<"/">> \o b

\* ' '.join(cmd)
RECURSIVE JoinSpace(_)
JoinSpace(cmd) ==
    IF cmd = <<>> THEN <<>>
    ELSE IF Len(cmd) = 1 THEN cmd[1]
    ELSE cmd[1] \o <<" ">> \o JoinSpace(Tail(cmd))

\* str.split(): the whitespace-separated words of a string
RECURSIVE Split(_)
Split(s) ==
    IF s = <<>> THEN <<>>
    ELSE IF s[1] = " " THEN Split(Tail(s))
    ELSE LET n == IF \E i \in 1..Len(s) : s[i] = " "
                  THEN (CHOOSE i \in 1..Len(s) :
                            s[i] = " " /\ \A k \in 1..(i-1) : s[k] # " ") - 1
                  ELSE Len(s)
         IN  <<SubSeq(s, 1, n)>> \o Split(SubSeq(s, n + 1, Len(s)))

----------------------------------------------------------------------------
(* Configuration (JobManager.__init__) *)

FFMPEG_PATH == <<"ffmpeg">>
RSYNC_PATH == <<"rsync">>
RSYNC_USER == <<"user">>
STORAGE_HOST == <<"host">>
ARCHIVE_ROOT_DIR == <<"/", "archive">>
LOCAL_TEMP_DIR == <<"/", "tmp", "/", "temp">>
LOCAL_OUTPUT_DIR == <<"/", "tmp", "/", "output">>
KeyFile == <<"/", "key">>

----------------------------------------------------------------------------
(* Inputs *)

JobId(i) == <<"j" \o ToString(i)>>
JobIds == {JobId(i) : i \in 1..MaxJobs}

Sources == { <<"/", "remote", "/", "a.mkv">>, <<"/", "remote", "/", "b.mkv">> }
ConversionSpec == <<"-c:v", " ", "libx265">>
ErrText == <<"Connection Refused">>
Stderrs == { <<>>, ErrText }

----------------------------------------------------------------------------
(* Job ledger: ffmpeg_tools/database.py *)

\* an optional argument: NoArg is Python's None default, Arg(x) a supplied value
NoArg == <<>>
Arg(x) == <<x>>

\* an INSERT that binds the two paths in the wrong order
create_jobSwapped(led, job_id, input_file, output_file, ffmpeg_command) ==
    led @@ (job_id :> [status           |-> "SUBMITTED",
                       input_file       |-> output_file,
                       output_file      |-> input_file,
                       ffmpeg_command   |-> ffmpeg_command,
                       progress_percent |-> 0,
                       notes            |-> NONE])

\* create_job: INSERT of a row with status SUBMITTED and progress 0.0
create_job(led, job_id, input_file, output_file, ffmpeg_command) ==
    led @@ (job_id :> [status           |-> "SUBMITTED",
                       input_file       |-> input_file,
                       output_file      |-> output_file,
                       ffmpeg_command   |-> ffmpeg_command,
                       progress_percent |-> 0,
                       notes            |-> NONE])

\* an UPDATE that writes NULL for the fields the caller left out
update_job_statusAllFields(led, job_id, status, progress, notes) ==
    IF job_id \notin DOMAIN led THEN led
    ELSE [led EXCEPT ![job_id] =
            [@ EXCEPT !.status = status,
                      !.progress_percent = IF progress # NoArg THEN progress[1] ELSE 0,
                      !.notes = IF notes # NoArg THEN notes[1] ELSE NONE]]

\* an UPDATE without its WHERE clause: every row is written
update_job_statusNoWhere(led, job_id, status, progress, notes) ==
    [k \in DOMAIN led |->
        [led[k] EXCEPT !.status = status,
                       !.progress_percent = IF progress # NoArg THEN progress[1] ELSE @,
                       !.notes = IF notes # NoArg THEN notes[1] ELSE @]]

\* an UPDATE that binds the notes to the output_file column
update_job_statusRewriting(led, job_id, status, progress, notes) ==
    IF job_id \notin DOMAIN led THEN led
    ELSE [led EXCEPT ![job_id] =
            [@ EXCEPT !.status = status,
                      !.progress_percent = IF progress # NoArg THEN progress[1] ELSE @,
                      !.output_file = IF notes # NoArg THEN notes[1] ELSE @]]

\* an update that drops the row of a job it marks COMPLETED
update_job_statusPurging(led, job_id, status, progress, notes) ==
    IF job_id \notin DOMAIN led THEN led
    ELSE IF status = "COMPLETED" THEN [k \in DOMAIN led \ {job_id} |-> led[k]]
    ELSE [led EXCEPT ![job_id] =
            [@ EXCEPT !.status = status,
                      !.progress_percent = IF progress # NoArg THEN progress[1] ELSE @,
                      !.notes = IF notes # NoArg THEN notes[1] ELSE @]]

\* an update that inserts the row when there is none
update_job_statusUpsert(led, job_id, status, progress, notes) ==
    IF job_id \in DOMAIN led
    THEN [led EXCEPT ![job_id] =
            [@ EXCEPT !.status = status,
                      !.progress_percent = IF progress # NoArg THEN progress[1] ELSE @,
                      !.notes = IF notes # NoArg THEN notes[1] ELSE @]]
    ELSE led @@ (job_id :> [status           |-> status,
                            input_file       |-> <<>>,
                            output_file      |-> <<>>,
                            ffmpeg_command   |-> <<>>,
                            progress_percent |-> 0,
                            notes            |-> NONE])

\* update_job_status: UPDATE ... WHERE job_id = ? (no row matched: no change)
update_job_status(led, job_id, status, progress, notes) ==
    IF job_id \notin DOMAIN led THEN led
    ELSE [led EXCEPT ![job_id] =
            [@ EXCEPT !.status = status,
                      !.progress_percent = IF progress # NoArg THEN progress[1] ELSE @,
                      !.notes = IF notes # NoArg THEN notes[1] ELSE @]]

\* the empty dict get_job returns for an unknown id
EmptyRow == [status |-> "<no row>"]

\* a lookup that hands back a placeholder row for an unknown id
get_jobPlaceholder(led, job_id) ==
    IF job_id \in DOMAIN led THEN led[job_id]
    ELSE [status |-> "UNKNOWN", input_file |-> <<>>, output_file |-> <<>>,
          ffmpeg_command |-> <<>>, progress_percent |-> 0, notes |-> NONE]

\* get_job
get_job(led, job_id) == IF job_id \in DOMAIN led THEN led[job_id] ELSE EmptyRow

----------------------------------------------------------------------------
(* Stage executor: command lines, outcomes and their classification *)

\* what subprocess.run can do: the process exits 0 or non-zero with some
\* stderr text, or the call raises something other than CalledProcessError
\* (made: whether the process left its output file behind)
Failures ==
    [kind : {"nonzero"}, stderr : {ErrText}, made : {FALSE}]
        \cup {[kind |-> "exc", stderr |-> <<>>, made |-> FALSE]}

RsyncOutcomes == Failures \cup {[kind |-> "exit0", stderr |-> <<>>, made |-> TRUE]}

BackupOutcomes == Failures \cup [kind : {"exit0"}, stderr : Stderrs, made : {FALSE}]

TranscodeOutcomes == Failures \cup [kind : {"exit0"}, stderr : {<<>>}, made : BOOLEAN]

NoRes == [kind |-> "none", stderr |-> <<>>, made |-> FALSE]

Truthy(s) == s # NONE /\ s # <<>>

\* a command that routes over the key whether one is configured or not
_build_rsync_cmdAlwaysKey(key, src, dest) ==
    << RSYNC_PATH, <<"-az">>, <<"--partial">>, <<"--progress">>,
       <<"-e">>, <<"ssh -i ">> \o key, src, dest >>

\* _build_rsync_cmd
_build_rsync_cmd(key, src, dest) ==
    << RSYNC_PATH, <<"-az">>, <<"--partial">>, <<"--progress">> >>
        \o (IF Truthy(key) THEN << <<"-e">>, <<"ssh -i ">> \o key >> ELSE <<>>)
        \o << src, dest >>

\* _run_rsync_transfer, line 66: the status written before the transfer
RsyncStartNote(stage_status) == <<"Starting ", stage_status, " transfer.">>

\* a transfer that records success whatever the process did
RsyncResultStatusNoFailure(stage_status, o) == stage_status \o "_COMPLETE"

\* _run_rsync_transfer, lines 73-93: the status written for an outcome
RsyncResultStatus(stage_status, o) ==
    IF o.kind = "exit0" THEN stage_status \o "_COMPLETE" ELSE stage_status \o "_FAILED"

\* a transfer whose failure note names neither the command nor the error
RsyncResultNoteTerse(stage_status, cmd, o) ==
    IF o.kind = "exit0" THEN <<stage_status, " successful.">>
    ELSE <<"RSYNC ", stage_status, " FAILED.">>

\* _run_rsync_transfer, lines 82, 86, 91: the note written for an outcome
RsyncResultNote(stage_status, cmd, o) ==
    CASE o.kind = "exit0" -> <<stage_status, " successful.">>
      [] o.kind = "nonzero" ->
            <<"RSYNC ", stage_status, " FAILED. Command: ">> \o JoinSpace(cmd)
                \o <<". Error: ">> \o o.stderr
      [] OTHER -> <<"Transfer failed due to unexpected error: ", "<exception>">>

\* _run_remote_backup, lines 104-113
remote_command(remote_file) ==
    <<"cp -f '">> \o remote_file \o <<"' '">> \o ARCHIVE_ROOT_DIR \o <<"/'">>

ssh_cmd(key, remote_file) ==
    << <<"ssh">>, <<"-i">>, key, RSYNC_USER \o <<"@">> \o STORAGE_HOST,
       remote_command(remote_file) >>

\* a remote copy that is taken to have succeeded whatever happened
BackupSucceededAlways(o) == TRUE

\* a backup that trusts the exit code alone
BackupSucceededByExitCode(o) == o.kind = "exit0"

\* _run_remote_backup, lines 117-131: check=True passed and stderr is empty
BackupSucceeded(o) == o.kind = "exit0" /\ ~Truthy(o.stderr)

BackupResultStatus(o) ==
    IF BackupSucceeded(o) THEN "BACKUP_SOURCE_COMPLETE" ELSE "BACKUP_SOURCE_FAILED"

\* progress=100.0 is passed with BACKUP_SOURCE_COMPLETE only
BackupResultProgress(o) == IF BackupSucceeded(o) THEN Arg(100) ELSE NoArg

\* _run_remote_backup, lines 130, 134, 139
BackupResultNote(cmd, o) ==
    CASE BackupSucceeded(o) -> <<"Remote backup successful (SSH cp).">>
      [] o.kind \in {"exit0", "nonzero"} ->
            <<"REMOTE BACKUP FAILED (SSH). Command: ">> \o JoinSpace(cmd)
                \o <<". Error: ">> \o o.stderr
      [] OTHER -> <<"Remote backup failed due to unexpected error: ", "<exception>">>

\* _run_ffmpeg_conversion, lines 148-150
ffmpeg_cmd(local_input, local_output, command) ==
    << FFMPEG_PATH, <<"-i">>, local_input >> \o Split(command) \o << local_output >>

\* _run_ffmpeg_conversion, lines 172, 182
FfmpegFailNote(o) ==
    IF o.kind = "nonzero"
    THEN <<"FFMPEG EXECUTION FAILED. Command exited with code ", "1", ". STDERR: ">>
            \o o.stderr
    ELSE <<"Unexpected error during FFMPEG process: ", "<exception>">>

\* _run_ffmpeg_conversion, lines 167, 177
FfmpegMissingNote(local_output) ==
    <<"FFMPEG failed to create output file: ",
      "FFMPEG reported success, but file was not found at ">> \o local_output

----------------------------------------------------------------------------
(* Path resolver: run_job_pipeline, lines 213-227 *)

remote_source_file(jd) == jd.input_file
base_filename(jd) == basename(remote_source_file(jd))
\* a temp path named after the job's own output file
local_temp_filePerJob(jd) == join(LOCAL_TEMP_DIR, basename(jd.output_file))

\* a temp path that does not depend on the source
local_temp_fileShared(jd) == join(LOCAL_TEMP_DIR, <<"input.tmp">>)

local_temp_file(jd) == join(LOCAL_TEMP_DIR, base_filename(jd))
local_output_file_uuid(jd) == jd.output_file
local_output_file_final(jd) == join(LOCAL_OUTPUT_DIR, base_filename(jd))
remote_pull_source(jd) ==
    RSYNC_USER \o <<"@">> \o STORAGE_HOST \o <<":">> \o remote_source_file(jd)
\* a push destination that names the source file instead of its directory
remote_push_destination_rootFile(jd) ==
    RSYNC_USER \o <<"@">> \o STORAGE_HOST \o <<":">> \o remote_source_file(jd)

remote_push_destination_root(jd) ==
    RSYNC_USER \o <<"@">> \o STORAGE_HOST \o <<":">> \o dirname(remote_source_file(jd))

----------------------------------------------------------------------------
(* State machine *)

\* what a call gives back: a value, or the exception it raises
Returns(v) == [raised |-> "no", value |-> v]
Raises(e) == [raised |-> e, value |-> NONE]

\* the orchestrator processes
Procs == 1..MaxProcs

\* no direct call has been made
NoCall == [op |-> "none"]

Init ==
    /\ ledger = <<>>
    /\ files = <<>>
    /\ SSH_KEY_PATH \in {KeyFile, NONE}
    /\ pc = [j \in JobIds |-> "idle"]
    /\ skip = [j \in JobIds |-> FALSE]
    /\ job_data = [j \in JobIds |-> EmptyRow]
    /\ res = [j \in JobIds |-> NoRes]
    /\ written = [j \in JobIds |-> <<>>]
    /\ calls = [j \in JobIds |-> <<>>]
    /\ absent = [j \in JobIds |-> "no"]
    /\ caller = [j \in JobIds |-> "none"]
    /\ runs = 0
    /\ orch = [p \in Procs |-> "start"]
    /\ media_files = <<>>
    /\ last_call = NoCall

\* no pipeline run and no create_new_job call is in progress for j
Idle(j) == pc[j] \in {"idle", "done", "raised"} /\ caller[j] # "in_call"

\* the service is single-threaded: one call at a time
Quiet == \A k \in JobIds : Idle(k)

Exists(path) == path \in DOMAIN files
Remove(fs, paths) == [q \in DOMAIN fs \ paths |-> fs[q]]

\* a pipeline that ignores what a stage returned
AfterStageNoReturn(ok, next) == next

\* run_job_pipeline, lines 232-242 and 254-255: "if not <stage>: return"
AfterStage(ok, next) == IF ok THEN next ELSE "done"

\* a ledger write of the running pipeline
Write(j, status, progress, notes) ==
    /\ ledger' = update_job_status(ledger, j, status, progress, notes)
    /\ written' = [written EXCEPT ![j] = Append(@, status)]

\* a subprocess.run call of the running pipeline
Call(j, stage, cmd, o) ==
    /\ res' = [res EXCEPT ![j] = o]
    /\ calls' = [calls EXCEPT ![j] = Append(@, [stage |-> stage, cmd |-> cmd, o |-> o])]

\* the output paths a client gives db.create_job: the job id as prefix of the
\* source's base name, in the local output directory
OutputChoices(j, src) == { join(LOCAL_OUTPUT_DIR, j \o <<"_">> \o basename(src)) }

\* the id a client generates next (uuid4: an id no row has yet)
NewId == JobId(Cardinality(DOMAIN ledger) + 1)

CreateJob(j, src, out) ==
    /\ Quiet
    /\ j = NewId
    /\ ledger' = create_job(ledger, j, src, out, ConversionSpec)
    /\ UNCHANGED <<files, SSH_KEY_PATH, pc, skip, job_data, res, written,
                   calls, absent, caller, runs, last_call, orch, media_files>>

\* a run that takes up a failed job at the stage that failed
EntryPointResume(jd) ==
    IF jd = EmptyRow THEN "done"
    ELSE IF jd.status = "BACKUP_SOURCE_FAILED" THEN "bk_0"
    ELSE "in_0"

\* a pipeline that goes on without a row
EntryPointUnchecked(jd) == "in_0"

\* run_job_pipeline, lines 208-211: "if not job_data: return"
EntryPoint(jd) == IF jd = EmptyRow THEN "done" ELSE "in_0"

\* a call starts for j: its frame is set up, and the frames that finished
\* calls left behind are gone
Enter(v, j, val, none) ==
    [k \in JobIds |-> IF k = j THEN val ELSE IF Idle(k) THEN none ELSE v[k]]

\* run_job_pipeline, lines 205-229
RunJobPipeline(j, skip_cleanup) ==
    /\ Quiet
    /\ runs < MaxRuns
    /\ runs' = runs + 1
    /\ job_data' = Enter(job_data, j, get_job(ledger, j), EmptyRow)
    /\ pc' = Enter(pc, j, EntryPoint(get_job(ledger, j)), "idle")
    /\ skip' = Enter(skip, j, skip_cleanup, FALSE)
    /\ res' = Enter(res, j, NoRes, NoRes)
    /\ written' = Enter(written, j, <<>>, <<>>)
    /\ calls' = Enter(calls, j, <<>>, <<>>)
    /\ absent' = Enter(absent, j, "no", "no")
    /\ caller' = Enter(caller, j, "none", "none")
    /\ UNCHANGED <<ledger, files, SSH_KEY_PATH, last_call, orch, media_files>>

\* _run_rsync_transfer, line 66
RsyncBegin(j, stage_status, from, to) ==
    /\ pc[j] = from
    /\ Write(j, stage_status, NoArg, Arg(RsyncStartNote(stage_status)))
    /\ pc' = [pc EXCEPT ![j] = to]
    /\ UNCHANGED <<files, SSH_KEY_PATH, skip, job_data, res, calls, absent,
                   caller, runs, last_call, orch, media_files>>

\* _run_rsync_transfer, lines 70-78: a pull leaves the file in dest_path
RsyncExec(j, stage_status, src_path, dest_path, from, to) ==
    /\ pc[j] = from
    /\ \E o \in RsyncOutcomes :
        /\ Call(j, stage_status, _build_rsync_cmd(SSH_KEY_PATH, src_path, dest_path), o)
        /\ files' = IF o.kind = "exit0" /\ dest_path = LOCAL_TEMP_DIR
                    THEN (local_temp_file(job_data[j]) :> remote_source_file(job_data[j]))
                            @@ files
                    ELSE files
    /\ pc' = [pc EXCEPT ![j] = to]
    /\ UNCHANGED <<ledger, SSH_KEY_PATH, skip, job_data, written, absent,
                   caller, runs, last_call, orch, media_files>>

\* _run_rsync_transfer, lines 80-93, and the caller's "if not ...: return"
RsyncEnd(j, stage_status, from, next) ==
    /\ pc[j] = from
    /\ Write(j, RsyncResultStatus(stage_status, res[j]), NoArg,
             Arg(RsyncResultNote(stage_status, Last(calls[j]).cmd, res[j])))
    /\ pc' = [pc EXCEPT ![j] = AfterStage(res[j].kind = "exit0", next)]
    /\ UNCHANGED <<files, SSH_KEY_PATH, skip, job_data, res, calls, absent,
                   caller, runs, last_call, orch, media_files>>

\* STAGE 1, line 232
TransferInBegin(j) == RsyncBegin(j, "TRANSFERRING_IN", "in_0", "in_1")
TransferInExec(j) ==
    RsyncExec(j, "TRANSFERRING_IN", remote_pull_source(job_data[j]), LOCAL_TEMP_DIR,
              "in_1", "in_2")
TransferInEnd(j) == RsyncEnd(j, "TRANSFERRING_IN", "in_2", "bk_0")

\* _run_remote_backup, line 100
BackupBegin(j) ==
    /\ pc[j] = "bk_0"
    /\ Write(j, "BACKUP_SOURCE", NoArg, Arg(<<"Executing remote copy command.">>))
    /\ pc' = [pc EXCEPT ![j] = "bk_1"]
    /\ UNCHANGED <<files, SSH_KEY_PATH, skip, job_data, res, calls, absent,
                   caller, runs, last_call, orch, media_files>>

\* _run_remote_backup, lines 117-122: with no key the argument list holds None
\* and subprocess.run raises TypeError before any process starts
BackupExec(j) ==
    /\ pc[j] = "bk_1"
    /\ \E o \in BackupOutcomes :
        /\ SSH_KEY_PATH = NONE => o.kind = "exc"
        /\ Call(j, "BACKUP_SOURCE",
                ssh_cmd(SSH_KEY_PATH, remote_source_file(job_data[j])), o)
    /\ pc' = [pc EXCEPT ![j] = "bk_2"]
    /\ UNCHANGED <<ledger, files, SSH_KEY_PATH, skip, job_data, written,
                   absent, caller, runs, last_call, orch, media_files>>

\* _run_remote_backup, lines 124-141, and line 236
BackupEnd(j) ==
    /\ pc[j] = "bk_2"
    /\ Write(j, BackupResultStatus(res[j]), BackupResultProgress(res[j]),
             Arg(BackupResultNote(Last(calls[j]).cmd, res[j])))
    /\ pc' = [pc EXCEPT ![j] = AfterStage(BackupSucceeded(res[j]), "ff_0")]
    /\ UNCHANGED <<files, SSH_KEY_PATH, skip, job_data, res, calls, absent,
                   caller, runs, last_call, orch, media_files>>

\* _run_ffmpeg_conversion, line 145
TranscodeBegin(j) ==
    /\ pc[j] = "ff_0"
    /\ Write(j, "PROCESSING", Arg(0), Arg(<<"Starting FFMPEG conversion.">>))
    /\ pc' = [pc EXCEPT ![j] = "ff_1"]
    /\ UNCHANGED <<files, SSH_KEY_PATH, skip, job_data, res, calls, absent,
                   caller, runs, last_call, orch, media_files>>

\* _run_ffmpeg_conversion, lines 148-159: the transcoder writes local_output
\* only when it has an input file to read
TranscodeExec(j) ==
    /\ pc[j] = "ff_1"
    /\ \E o \in TranscodeOutcomes :
        /\ o.made => Exists(local_temp_file(job_data[j]))
        /\ Call(j, "PROCESSING",
                ffmpeg_cmd(local_temp_file(job_data[j]),
                           local_output_file_uuid(job_data[j]),
                           job_data[j].ffmpeg_command), o)
        /\ files' = IF o.made
                    THEN (local_output_file_uuid(job_data[j]) :>
                            (<<"enc:">> \o j \o <<":">> \o files[local_temp_file(job_data[j])]))
                            @@ files
                    ELSE files
    /\ pc' = [pc EXCEPT ![j] = "ff_2"]
    /\ UNCHANGED <<ledger, SSH_KEY_PATH, skip, job_data, written, absent,
                   caller, runs, last_call, orch, media_files>>

\* a transcode that records PROCESSING_COMPLETE whatever the process did
TranscodeResultStatusNoFailure(o) == "PROCESSING_COMPLETE"

\* _run_ffmpeg_conversion, lines 161 and 171-185: the status written once
\* subprocess.run has returned or raised
TranscodeResultStatus(o) ==
    IF o.kind = "exit0" THEN "PROCESSING_COMPLETE" ELSE "PROCESSING_FAILED"

TranscodeEnd(j) ==
    /\ pc[j] = "ff_2"
    /\ IF res[j].kind = "exit0"
       THEN Write(j, TranscodeResultStatus(res[j]), Arg(100),
                  Arg(<<"FFMPEG finished successfully.">>))
       ELSE Write(j, TranscodeResultStatus(res[j]), NoArg, Arg(FfmpegFailNote(res[j])))
    /\ pc' = [pc EXCEPT ![j] = AfterStage(res[j].kind = "exit0", "ff_3")]
    /\ UNCHANGED <<files, SSH_KEY_PATH, skip, job_data, res, calls, absent,
                   caller, runs, last_call, orch, media_files>>

\* _run_ffmpeg_conversion, lines 166-169 and 176-180, and line 241
TranscodeCheck(j) ==
    /\ pc[j] = "ff_3"
    /\ IF Exists(local_output_file_uuid(job_data[j]))
       THEN /\ pc' = [pc EXCEPT ![j] = "rn"]
            /\ UNCHANGED <<ledger, written, absent>>
       ELSE /\ Write(j, "PROCESSING_FAILED", NoArg,
                     Arg(FfmpegMissingNote(local_output_file_uuid(job_data[j]))))
            /\ absent' = [absent EXCEPT ![j] = "executor"]
            /\ pc' = [pc EXCEPT ![j] = "done"]
    /\ UNCHANGED <<files, SSH_KEY_PATH, skip, job_data, res, calls, caller,
                   runs, last_call, orch, media_files>>

\* os.rename(src, dst)
rename(fs, src, dst) == (dst :> fs[src]) @@ Remove(fs, {src})

\* a rename step that goes on to the push without looking for the file
RenameUnchecked(j) ==
    /\ pc[j] = "rn"
    /\ \E gone \in BOOLEAN :
        LET uuid == local_output_file_uuid(job_data[j])
            fs == IF gone THEN Remove(files, {uuid}) ELSE files
        IN  /\ gone => Exists(uuid)
            /\ files' = IF uuid \in DOMAIN fs
                         THEN rename(fs, uuid, local_output_file_final(job_data[j]))
                         ELSE fs
            /\ absent' = [absent EXCEPT ![j] =
                            IF uuid \in DOMAIN fs THEN @ ELSE "rename"]
    /\ pc' = [pc EXCEPT ![j] = "out_0"]
    /\ UNCHANGED <<ledger, written, SSH_KEY_PATH, skip, job_data, res, calls,
                   caller, runs, last_call, orch, media_files>>

\* run_job_pipeline, lines 245-250.  Another process of the host may have
\* removed the output file since the executor saw it (gone); os.rename can
\* raise OSError, which nothing catches (~ok)
Rename(j) ==
    /\ pc[j] = "rn"
    /\ \E gone \in BOOLEAN, ok \in BOOLEAN :
        LET uuid == local_output_file_uuid(job_data[j])
            fs == IF gone THEN Remove(files, {uuid}) ELSE files
        IN  /\ gone => Exists(uuid) /\ ok
            /\ IF uuid \in DOMAIN fs
               THEN /\ files' = IF ok
                                THEN rename(fs, uuid, local_output_file_final(job_data[j]))
                                ELSE fs
                    /\ pc' = [pc EXCEPT ![j] = IF ok THEN "out_0" ELSE "raised"]
                    /\ UNCHANGED <<ledger, written, absent>>
               ELSE /\ ok
                    /\ Write(j, "PROCESSING_FAILED", NoArg,
                             Arg(<<"FFMPEG did not create output file for rename.">>))
                    /\ absent' = [absent EXCEPT ![j] = "rename"]
                    /\ pc' = [pc EXCEPT ![j] = "done"]
                    /\ files' = fs
    /\ UNCHANGED <<SSH_KEY_PATH, skip, job_data, res, calls, caller, runs,
                   last_call, orch, media_files>>

\* a push that is tried again when it fails
TransferOutEndRetry(j) ==
    /\ pc[j] = "out_2"
    /\ Write(j, RsyncResultStatus("TRANSFERRING_OUT", res[j]), NoArg,
             Arg(RsyncResultNote("TRANSFERRING_OUT", Last(calls[j]).cmd, res[j])))
    /\ pc' = [pc EXCEPT ![j] = IF res[j].kind = "exit0" THEN "cleanup" ELSE "out_1"]
    /\ UNCHANGED <<files, SSH_KEY_PATH, skip, job_data, res, calls, absent,
                   caller, runs, last_call, orch, media_files>>

\* STAGE 4, line 254
TransferOutBegin(j) == RsyncBegin(j, "TRANSFERRING_OUT", "out_0", "out_1")
TransferOutExec(j) ==
    RsyncExec(j, "TRANSFERRING_OUT", local_output_file_final(job_data[j]),
              remote_push_destination_root(job_data[j]), "out_1", "out_2")
TransferOutEnd(j) == RsyncEnd(j, "TRANSFERRING_OUT", "out_2", "cleanup")

\* a cleanup that forgets the output file
CleanupTempOnly(j) ==
    /\ pc[j] = "cleanup"
    /\ files' = IF skip[j] THEN files
                ELSE Remove(files, {local_temp_file(job_data[j])})
    /\ pc' = [pc EXCEPT ![j] = "final"]
    /\ UNCHANGED <<ledger, SSH_KEY_PATH, skip, job_data, res, written, calls,
                   absent, caller, runs, last_call, orch, media_files>>

\* run_job_pipeline, lines 258-267: each os.remove can raise OSError, which
\* nothing catches ("temp": the first remove raised, "final": the second)
Cleanup(j) ==
    /\ pc[j] = "cleanup"
    /\ LET temp == local_temp_file(job_data[j])
           final == local_output_file_final(job_data[j])
       IN  IF skip[j]
           THEN /\ files' = files
                /\ pc' = [pc EXCEPT ![j] = "final"]
           ELSE \E raised \in {"no", "temp", "final"} :
                /\ raised = "temp" => Exists(temp)
                /\ raised = "final" => Exists(final)
                /\ files' = CASE raised = "no" -> Remove(files, {temp, final})
                              [] raised = "temp" -> files
                              [] raised = "final" -> Remove(files, {temp})
                /\ pc' = [pc EXCEPT ![j] = IF raised = "no" THEN "final" ELSE "raised"]
    /\ UNCHANGED <<ledger, SSH_KEY_PATH, skip, job_data, res, written, calls,
                   absent, caller, runs, last_call, orch, media_files>>

\* run_job_pipeline, lines 270-271
Finalize(j) ==
    /\ pc[j] = "final"
    /\ Write(j, "COMPLETED", NoArg, Arg(<<"All stages successful.">>))
    /\ pc' = [pc EXCEPT ![j] = "done"]
    /\ UNCHANGED <<files, SSH_KEY_PATH, skip, job_data, res, calls, absent,
                   caller, runs, last_call, orch, media_files>>

\* create_new_job(input_file, ffmpeg_command): a new id, a ledger row whose
\* output path carries the id as prefix, then the pipeline in the same call
CreateNewJob(j, input_file) ==
    /\ Quiet
    /\ runs < MaxRuns
    /\ j = NewId
    /\ ledger' = create_job(ledger, j, input_file,
                            join(LOCAL_OUTPUT_DIR, j \o <<"_">> \o basename(input_file)),
                            ConversionSpec)
    /\ runs' = runs + 1
    /\ job_data' = Enter(job_data, j, get_job(ledger', j), EmptyRow)
    /\ pc' = Enter(pc, j, "in_0", "idle")
    /\ skip' = Enter(skip, j, FALSE, FALSE)
    /\ res' = Enter(res, j, NoRes, NoRes)
    /\ written' = Enter(written, j, <<>>, <<>>)
    /\ calls' = Enter(calls, j, <<>>, <<>>)
    /\ absent' = Enter(absent, j, "no", "no")
    /\ caller' = Enter(caller, j, "in_call", "none")
    /\ UNCHANGED <<files, SSH_KEY_PATH, last_call, orch, media_files>>

\* create_new_job: the pipeline has returned and the id is handed back, or the
\* pipeline raised and the exception goes on to the caller
CreateNewJobReturn(j) ==
    /\ caller[j] = "in_call"
    /\ \/ pc[j] = "done" /\ caller' = [caller EXCEPT ![j] = "returned"]
       \/ pc[j] = "raised" /\ caller' = [caller EXCEPT ![j] = "raised"]
    /\ UNCHANGED <<ledger, files, SSH_KEY_PATH, pc, skip, job_data, res,
                   written, calls, absent, runs, last_call, orch, media_files>>

Next ==
    \/ \E j \in JobIds, src \in Sources : \E out \in OutputChoices(j, src) :
            CreateJob(j, src, out)
    \/ \E j \in JobIds, s \in BOOLEAN : RunJobPipeline(j, s)
    \/ \E j \in JobIds : TransferInBegin(j)
    \/ \E j \in JobIds : TransferInExec(j)
    \/ \E j \in JobIds : TransferInEnd(j)
    \/ \E j \in JobIds : BackupBegin(j)
    \/ \E j \in JobIds : BackupExec(j)
    \/ \E j \in JobIds : BackupEnd(j)
    \/ \E j \in JobIds : TranscodeBegin(j)
    \/ \E j \in JobIds : TranscodeExec(j)
    \/ \E j \in JobIds : TranscodeEnd(j)
    \/ \E j \in JobIds : TranscodeCheck(j)
    \/ \E j \in JobIds : Rename(j)
    \/ \E j \in JobIds : TransferOutBegin(j)
    \/ \E j \in JobIds : TransferOutExec(j)
    \/ \E j \in JobIds : TransferOutEnd(j)
    \/ \E j \in JobIds : Cleanup(j)
    \/ \E j \in JobIds : Finalize(j)
    \/ \E j \in JobIds, src \in Sources : CreateNewJob(j, src)
    \/ \E j \in JobIds : CreateNewJobReturn(j)

Spec == Init /\ [][Next]_vars

----------------------------------------------------------------------------
(* Two pipeline runs on two threads of one JobManager: run_job_pipeline holds
   no lock, so the steps of the two runs interleave freely *)

ConcJobs == {JobId(1), JobId(2)}

\* sources of the two jobs: two of them share a base name across directories
ConcSources == Sources \cup { <<"/", "other", "/", "a.mkv">> }

\* the rows of the two jobs, each with any source and its id-prefixed output
\* path (line 220: "Original file with UUID prefix")
ConcLedgers ==
    { create_job(create_job(<<>>, JobId(1), src1, out1, ConversionSpec),
                 JobId(2), src2, out2, ConversionSpec) :
        <<src1, out1, src2, out2>> \in
            UNION { {src} \X OutputChoices(JobId(1), src) \X {srd}
                        \X OutputChoices(JobId(2), srd) :
                    <<src, srd>> \in ConcSources \X ConcSources } }

ConcInit ==
    /\ ledger \in ConcLedgers
    /\ files = <<>>
    /\ SSH_KEY_PATH = KeyFile
    /\ pc = [j \in JobIds |-> "idle"]
    /\ skip = [j \in JobIds |-> FALSE]
    /\ job_data = [j \in JobIds |-> EmptyRow]
    /\ res = [j \in JobIds |-> NoRes]
    /\ written = [j \in JobIds |-> <<>>]
    /\ calls = [j \in JobIds |-> <<>>]
    /\ absent = [j \in JobIds |-> "no"]
    /\ caller = [j \in JobIds |-> "none"]
    /\ runs = 0
    /\ orch = [p \in Procs |-> "start"]
    /\ media_files = <<>>
    /\ last_call = NoCall

\* run_job_pipeline, lines 205-229, entered by a thread of its own
ThreadRunJobPipeline(j, skip_cleanup) ==
    /\ pc[j] = "idle"
    /\ runs' = runs + 1
    /\ job_data' = [job_data EXCEPT ![j] = get_job(ledger, j)]
    /\ pc' = [pc EXCEPT ![j] = EntryPoint(get_job(ledger, j))]
    /\ skip' = [skip EXCEPT ![j] = skip_cleanup]
    /\ UNCHANGED <<ledger, files, SSH_KEY_PATH, res, written, calls, absent,
                   caller, last_call, orch, media_files>>

ConcNext ==
    \/ \E j \in ConcJobs, s \in BOOLEAN : ThreadRunJobPipeline(j, s)
    \/ \E j \in ConcJobs : TransferInBegin(j)
    \/ \E j \in ConcJobs : TransferInExec(j)
    \/ \E j \in ConcJobs : TransferInEnd(j)
    \/ \E j \in ConcJobs : BackupBegin(j)
    \/ \E j \in ConcJobs : BackupExec(j)
    \/ \E j \in ConcJobs : BackupEnd(j)
    \/ \E j \in ConcJobs : TranscodeBegin(j)
    \/ \E j \in ConcJobs : TranscodeExec(j)
    \/ \E j \in ConcJobs : TranscodeEnd(j)
    \/ \E j \in ConcJobs : TranscodeCheck(j)
    \/ \E j \in ConcJobs : Rename(j)
    \/ \E j \in ConcJobs : TransferOutBegin(j)
    \/ \E j \in ConcJobs : TransferOutExec(j)
    \/ \E j \in ConcJobs : TransferOutEnd(j)
    \/ \E j \in ConcJobs : Cleanup(j)
    \/ \E j \in ConcJobs : Finalize(j)

ConcSpec == ConcInit /\ [][ConcNext]_vars

----------------------------------------------------------------------------
(* One pipeline run of a job whose output path its creator chose: create_job
   stores any output_file, and test_execution_integration.py (line 101) names
   it after the target container, not after the source *)

NamingJob == JobId(1)

\* output paths of the job: the id-prefixed source name, an id-prefixed name
\* of the target container, and a name without the id prefix
OutputNames(j, src) ==
    OutputChoices(j, src) \cup
        { join(LOCAL_OUTPUT_DIR, j \o <<"_", "a.mp4">>),
          join(LOCAL_OUTPUT_DIR, <<"a.mp4">>) }

NamingLedgers ==
    UNION { { create_job(<<>>, NamingJob, src, out, ConversionSpec) :
                out \in OutputNames(NamingJob, src) } : src \in Sources }

NamingInit ==
    /\ ledger \in NamingLedgers
    /\ files = <<>>
    /\ SSH_KEY_PATH = KeyFile
    /\ pc = [j \in JobIds |-> "idle"]
    /\ skip = [j \in JobIds |-> FALSE]
    /\ job_data = [j \in JobIds |-> EmptyRow]
    /\ res = [j \in JobIds |-> NoRes]
    /\ written = [j \in JobIds |-> <<>>]
    /\ calls = [j \in JobIds |-> <<>>]
    /\ absent = [j \in JobIds |-> "no"]
    /\ caller = [j \in JobIds |-> "none"]
    /\ runs = 0
    /\ orch = [p \in Procs |-> "start"]
    /\ media_files = <<>>
    /\ last_call = NoCall

NamingSpec == NamingInit /\ [][ConcNext]_vars

----------------------------------------------------------------------------
(* Direct calls on the ledger (JobDatabaseManager used as in test_database.py) *)

LedgerIds == {JobId(1), JobId(2)}
UpdateStatuses == {"TRANSFERRING_IN", "COMPLETED"}
UpdateProgress == {NoArg, Arg(50)}
UpdateNotes == {NoArg, Arg(<<"Transfer 15% complete.">>), Arg(<<"Job finished.">>)}

\* a table without the primary key
PrimaryKeyTakenNever(led, job_id) == FALSE

\* create_tables, line 23: job_id TEXT PRIMARY KEY
PrimaryKeyTaken(led, job_id) == job_id \in DOMAIN led

\* db.create_job(job_id, input_file, output_file, ffmpeg_command): the INSERT
\* of a taken job_id raises sqlite3.IntegrityError and inserts nothing
DbCreateJob(job_id, input_file, output_file, ffmpeg_command) ==
    /\ last_call' = [op |-> "create_job", job_id |-> job_id,
                     input_file |-> input_file, output_file |-> output_file,
                     ffmpeg_command |-> ffmpeg_command,
                     result |-> IF PrimaryKeyTaken(ledger, job_id)
                                THEN Raises("IntegrityError") ELSE Returns(NONE)]
    /\ ledger' = IF PrimaryKeyTaken(ledger, job_id) THEN ledger
                 ELSE create_job(ledger, job_id, input_file, output_file,
                                 ffmpeg_command)
    /\ UNCHANGED <<files, SSH_KEY_PATH, pc, skip, job_data, res, written,
                   calls, absent, caller, runs, orch, media_files>>

\* db.update_job_status(job_id, status, progress, notes)
DbUpdateJobStatus(job_id, status, progress, notes) ==
    /\ last_call' = [op |-> "update_job_status", job_id |-> job_id,
                     status |-> status, progress |-> progress, notes |-> notes,
                     result |-> Returns(NONE)]
    /\ ledger' = update_job_status(ledger, job_id, status, progress, notes)
    /\ UNCHANGED <<files, SSH_KEY_PATH, pc, skip, job_data, res, written,
                   calls, absent, caller, runs, orch, media_files>>

\* db.get_job(job_id)
DbGetJob(job_id) ==
    /\ last_call' = [op |-> "get_job", job_id |-> job_id,
                     result |-> Returns(get_job(ledger, job_id))]
    /\ UNCHANGED <<ledger, files, SSH_KEY_PATH, pc, skip, job_data, res,
                   written, calls, absent, caller, runs, orch, media_files>>

LedgerNext ==
    \/ \E j \in LedgerIds, src \in Sources : \E out \in OutputChoices(j, src) :
            DbCreateJob(j, src, out, ConversionSpec)
    \/ \E j \in LedgerIds, st \in UpdateStatuses, pr \in UpdateProgress,
           n \in UpdateNotes : DbUpdateJobStatus(j, st, pr, n)
    \/ \E j \in LedgerIds : DbGetJob(j)

LedgerSpec == Init /\ [][LedgerNext]_vars

----------------------------------------------------------------------------
(* The service as its callers use it: direct calls on the ledger and on the
   transfer executor (test_execution_integration.py calls _run_rsync_transfer
   with an id that has no row), one after another, and a pipeline run *)

\* a transfer that reports the job done when the process succeeds
_run_rsync_transferWithProgress(led, key, job_id, src_path, dest_path, stage_status, o) ==
    [ledger |-> update_job_status(
                    update_job_status(led, job_id, stage_status, NoArg,
                                      Arg(RsyncStartNote(stage_status))),
                    job_id, RsyncResultStatus(stage_status, o),
                    IF o.kind = "exit0" THEN Arg(100) ELSE NoArg,
                    Arg(RsyncResultNote(stage_status,
                                        _build_rsync_cmd(key, src_path, dest_path), o))),
     value |-> o.kind = "exit0"]

\* _run_rsync_transfer as one call: the ledger it leaves and what it returns,
\* for the outcome o of the rsync process
_run_rsync_transfer(led, key, job_id, src_path, dest_path, stage_status, o) ==
    [ledger |-> update_job_status(
                    update_job_status(led, job_id, stage_status, NoArg,
                                      Arg(RsyncStartNote(stage_status))),
                    job_id, RsyncResultStatus(stage_status, o), NoArg,
                    Arg(RsyncResultNote(stage_status,
                                        _build_rsync_cmd(key, src_path, dest_path), o))),
     value |-> o.kind = "exit0"]

\* the job that is created and run, and an id no job was created with
ServiceJob == JobId(1)
UnknownId == JobId(2)
ServiceIds == {ServiceJob, UnknownId}

\* CINCHRO_TEST_PULL_FILE
ServicePullFile == <<"/", "remote", "/", "a.mkv">>

\* the pipeline thread has not started / is not in the middle of a run
PipelineIdle == pc[ServiceJob] = "idle"
PipelineQuiet == pc[ServiceJob] \in {"idle", "done", "raised"}

\* manager._run_rsync_transfer(job_id, src_path, dest_path, stage_status):
\* a pull of remote_file into the temp directory, or a push of its local
\* output to the directory it came from
DbRunRsyncTransfer(job_id, remote_file, stage_status) ==
    \E o \in RsyncOutcomes :
        LET jd == [input_file |-> remote_file]
            src_path == IF stage_status = "TRANSFERRING_IN"
                        THEN remote_pull_source(jd)
                        ELSE local_output_file_final(jd)
            dest_path == IF stage_status = "TRANSFERRING_IN"
                         THEN LOCAL_TEMP_DIR
                         ELSE remote_push_destination_root(jd)
            r == _run_rsync_transfer(ledger, SSH_KEY_PATH, job_id, src_path,
                                     dest_path, stage_status, o)
        IN  /\ last_call' = [op |-> "_run_rsync_transfer", job_id |-> job_id,
                             src_path |-> src_path, dest_path |-> dest_path,
                             stage_status |-> stage_status, o |-> o,
                             result |-> Returns(r.value)]
            /\ ledger' = r.ledger
            /\ files' = IF o.kind = "exit0" /\ stage_status = "TRANSFERRING_IN"
                        THEN (local_temp_file(jd) :> remote_file) @@ files
                        ELSE files
            /\ UNCHANGED <<SSH_KEY_PATH, pc, skip, job_data, res, written,
                           calls, absent, caller, runs, orch, media_files>>

ServiceNext ==
    \/ \E src \in Sources : \E out \in OutputChoices(ServiceJob, src) :
            PipelineIdle /\ DbCreateJob(ServiceJob, src, out, ConversionSpec)
    \/ \E j \in ServiceIds :
            PipelineQuiet /\ DbUpdateJobStatus(j, "COMPLETED", Arg(50), NoArg)
    \/ \E j \in ServiceIds : PipelineQuiet /\ DbGetJob(j)
    \/ \E j \in ServiceIds, st \in {"TRANSFERRING_IN", "TRANSFERRING_OUT"} :
            PipelineIdle /\ DbRunRsyncTransfer(j, ServicePullFile, st)
    \/ \E s \in BOOLEAN : ThreadRunJobPipeline(ServiceJob, s)
    \/ TransferInBegin(ServiceJob)
    \/ TransferInExec(ServiceJob)
    \/ TransferInEnd(ServiceJob)
    \/ BackupBegin(ServiceJob)
    \/ BackupExec(ServiceJob)
    \/ BackupEnd(ServiceJob)
    \/ TranscodeBegin(ServiceJob)
    \/ TranscodeExec(ServiceJob)
    \/ TranscodeEnd(ServiceJob)
    \/ TranscodeCheck(ServiceJob)
    \/ Rename(ServiceJob)
    \/ TransferOutBegin(ServiceJob)
    \/ TransferOutExec(ServiceJob)
    \/ TransferOutEnd(ServiceJob)
    \/ Cleanup(ServiceJob)
    \/ Finalize(ServiceJob)

\* no job has been created yet; a key is configured
ServiceInit == Init /\ SSH_KEY_PATH = KeyFile

ServiceSpec == ServiceInit /\ [][ServiceNext]_vars

----------------------------------------------------------------------------

(* The remote-path resolver, called directly on file names spelled letter
   by letter *)

MaxIdLen == 2
MaxNameLen == 3

Alphabet == {"a", "b", "_"}
Words(n) == UNION {[1..k -> Alphabet] : k \in 0..n}

ResolverIds == Words(MaxIdLen) \cup {<<"abc123">>}
ResolverNames == Words(MaxNameLen) \cup {<<"abc123", "_", "movie.mp4">>}
ResolverDirs == {<<>>, LOCAL_OUTPUT_DIR \o <<"/">>}
ResolverDests ==
    {RSYNC_USER \o <<"@">> \o STORAGE_HOST \o <<":">> \o dirname(src) : src \in Sources}

\* the call has not returned yet
Pending == [raised |-> "pending", value |-> NONE]

\* a slice that starts one character early
final_nameOffByOne(job_id, local_output_file) ==
    LET local_base_name == basename(local_output_file)
    IN  IF StartsWith(local_base_name, job_id \o <<"_">>)
        THEN SubSeq(local_base_name, Len(job_id) + 1, Len(local_base_name))
        ELSE local_base_name

\* _get_final_remote_path, lines 192-198: local_base_name[len(job_id) + 1:]
final_name(job_id, local_output_file) ==
    LET local_base_name == basename(local_output_file)
    IN  IF StartsWith(local_base_name, job_id \o <<"_">>)
        THEN SubSeq(local_base_name, Len(job_id) + 2, Len(local_base_name))
        ELSE local_base_name

\* _get_final_remote_path
_get_final_remote_path(job_id, remote_push_destination, local_output_file) ==
    join(remote_push_destination, final_name(job_id, local_output_file))

ResolverInit ==
    /\ ledger = <<>>
    /\ files = <<>>
    /\ SSH_KEY_PATH = KeyFile
    /\ pc = [j \in JobIds |-> "idle"]
    /\ skip = [j \in JobIds |-> FALSE]
    /\ job_data = [j \in JobIds |-> EmptyRow]
    /\ res = [j \in JobIds |-> NoRes]
    /\ written = [j \in JobIds |-> <<>>]
    /\ calls = [j \in JobIds |-> <<>>]
    /\ absent = [j \in JobIds |-> "no"]
    /\ caller = [j \in JobIds |-> "none"]
    /\ runs = 0
    /\ orch = [p \in Procs |-> "start"]
    /\ media_files = <<>>
    /\ last_call \in [op : {"_get_final_remote_path"}, job_id : ResolverIds,
                       remote_push_destination : ResolverDests,
                       dir : ResolverDirs, name : ResolverNames,
                       result : {Pending}]

GetFinalRemotePath ==
    /\ last_call.op = "_get_final_remote_path"
    /\ last_call.result = Pending
    /\ last_call' =
            [last_call EXCEPT !.result =
                Returns(_get_final_remote_path(last_call.job_id,
                                               last_call.remote_push_destination,
                                               last_call.dir \o last_call.name))]
    /\ UNCHANGED <<ledger, files, SSH_KEY_PATH, pc, skip, job_data, res,
                   written, calls, absent, caller, runs, orch, media_files>>

ResolverNext == GetFinalRemotePath

ResolverSpec == ResolverInit /\ [][ResolverNext]_vars

----------------------------------------------------------------------------
(* The transfer command builder, called directly *)

\* self.SSH_KEY_PATH: not set, empty, or the path of a key file
RsyncKeys == {NONE, <<>>, KeyFile, <<"/", "home", "/", "id_rsa">>}

\* local paths and user@host:path locators
RsyncLocators ==
    Sources \cup {LOCAL_TEMP_DIR, LOCAL_OUTPUT_DIR}
        \cup {join(LOCAL_OUTPUT_DIR, basename(src)) : src \in Sources}
        \cup {RSYNC_USER \o <<"@">> \o STORAGE_HOST \o <<":">> \o src : src \in Sources}

CommandInit ==
    /\ ledger = <<>>
    /\ files = <<>>
    /\ SSH_KEY_PATH \in RsyncKeys
    /\ pc = [j \in JobIds |-> "idle"]
    /\ skip = [j \in JobIds |-> FALSE]
    /\ job_data = [j \in JobIds |-> EmptyRow]
    /\ res = [j \in JobIds |-> NoRes]
    /\ written = [j \in JobIds |-> <<>>]
    /\ calls = [j \in JobIds |-> <<>>]
    /\ absent = [j \in JobIds |-> "no"]
    /\ caller = [j \in JobIds |-> "none"]
    /\ runs = 0
    /\ orch = [p \in Procs |-> "start"]
    /\ media_files = <<>>
    /\ last_call \in [op : {"_build_rsync_cmd"}, src : RsyncLocators,
                       dest : RsyncLocators, result : {Pending}]

BuildRsyncCmd ==
    /\ last_call.op = "_build_rsync_cmd"
    /\ last_call.result = Pending
    /\ last_call' =
            [last_call EXCEPT !.result =
                Returns(_build_rsync_cmd(SSH_KEY_PATH, last_call.src, last_call.dest))]
    /\ UNCHANGED <<ledger, files, SSH_KEY_PATH, pc, skip, job_data, res,
                   written, calls, absent, caller, runs, orch, media_files>>

CommandNext == BuildRsyncCmd

CommandSpec == CommandInit /\ [][CommandNext]_vars

----------------------------------------------------------------------------
(* The orchestrator's entry point, orchestrator/main.py, run by several
   processes of one host; the lock file lives in the host's file system *)

orchestrator_dir == <<"/", "app", "/", "orchestrator">>
lock_path == join(orchestrator_dir, <<"cinchro.lock">>)

\* an open that creates or truncates the file (mode 'w')
OpenTruncatingFileExists(fs, path) == FALSE

\* open(path, 'x'): exclusive creation fails with EEXIST when the file exists
OpenExclusiveFileExists(fs, path) == path \in DOMAIN fs

\* main.py, lines 30-39: EEXIST ends the process with exit code 0, any other
\* IOError with exit code 1; neither touches the lock file
AcquireLock(p) ==
    /\ orch[p] = "start"
    /\ IF OpenExclusiveFileExists(files, lock_path)
       THEN /\ orch' = [orch EXCEPT ![p] = "exit_busy"]
            /\ files' = files
       ELSE \E ok \in BOOLEAN :
            /\ orch' = [orch EXCEPT ![p] = IF ok THEN "config" ELSE "exit_error"]
            /\ files' = IF ok THEN (lock_path :> <<>>) @@ files ELSE files
    /\ UNCHANGED <<ledger, SSH_KEY_PATH, pc, skip, job_data, res, written,
                   calls, absent, caller, runs, last_call, media_files>>

\* main.py, lines 42-49: a configuration that does not load removes the lock
LoadConfig(p) ==
    /\ orch[p] = "config"
    /\ \E ok \in BOOLEAN :
        /\ orch' = [orch EXCEPT ![p] = IF ok THEN "workflow" ELSE "exit_error"]
        /\ files' = IF ok THEN files ELSE Remove(files, {lock_path})
    /\ UNCHANGED <<ledger, SSH_KEY_PATH, pc, skip, job_data, res, written,
                   calls, absent, caller, runs, last_call, media_files>>

\* a workflow whose exception handler exits before the lock is removed
RunWorkflowNoFinally(p) ==
    /\ orch[p] = "workflow"
    /\ \E ok \in BOOLEAN :
        /\ orch' = [orch EXCEPT ![p] = IF ok THEN "exit_ok" ELSE "exit_error"]
        /\ files' = IF ok THEN Remove(files, {lock_path}) ELSE files
    /\ UNCHANGED <<ledger, SSH_KEY_PATH, pc, skip, job_data, res, written,
                   calls, absent, caller, runs, last_call, media_files>>

\* main.py, lines 52-67: the workflow ends or raises; finally removes the lock
RunWorkflow(p) ==
    /\ orch[p] = "workflow"
    /\ \E ok \in BOOLEAN :
        orch' = [orch EXCEPT ![p] = IF ok THEN "exit_ok" ELSE "exit_error"]
    /\ files' = Remove(files, {lock_path})
    /\ UNCHANGED <<ledger, SSH_KEY_PATH, pc, skip, job_data, res, written,
                   calls, absent, caller, runs, last_call, media_files>>

OrchNext ==
    \/ \E p \in Procs : AcquireLock(p)
    \/ \E p \in Procs : LoadConfig(p)
    \/ \E p \in Procs : RunWorkflow(p)

OrchSpec == Init /\ [][OrchNext]_vars

\* the same processes, each of which goes on running once it holds the lock:
\* loading the configuration ends, and so does the workflow
OrchFairSpec ==
    Init /\ [][OrchNext]_vars
        /\ \A p \in Procs : WF_vars(LoadConfig(p)) /\ WF_vars(RunWorkflow(p))

----------------------------------------------------------------------------
(* The orchestrator's file database, orchestrator/database.py, called
   directly (the last_processed_date column, a timestamp, is left out) *)

MediaPaths ==
    { <<"/", "media", "/", "file1.mkv">>, <<"/", "media", "/", "file2.mkv">>,
      <<"/", "media", "/", "file3.mkv">> }
MediaStatuses == {"processed", "skipped"}

\* the optional arguments of update_file_status: all left out, or all given
MediaDetails ==
    { [processing_path |-> NONE, output_files |-> NONE, notes |-> NONE],
      [processing_path |-> <<"/", "tmp", "/", "processed_file.mp4">>,
       output_files |-> << <<"/", "output", "/", "final.mp4">>,
                           <<"/", "output", "/", "final.srt">> >>,
       notes |-> <<"Transcoded and organized">>] }

\* json.dumps of a list of strings
RECURSIVE json_items(_)
json_items(list) ==
    IF list = <<>> THEN <<>>
    ELSE <<"\"">> \o list[1] \o <<"\"">>
            \o (IF Len(list) > 1 THEN <<", ">> \o json_items(Tail(list)) ELSE <<>>)

json_dumps(list) == <<"[">> \o json_items(list) \o <<"]">>

\* an INSERT OR REPLACE: the row is written anew each time
add_fileReplacing(tbl, file_path) ==
    [table |-> (file_path :> [status |-> "pending_scan",
                              processing_file_path |-> NONE,
                              output_files |-> NONE,
                              notes |-> NONE]) @@ tbl,
     value |-> TRUE]

\* add_file: the INSERT of a taken file_path (PRIMARY KEY) raises
\* sqlite3.IntegrityError, which is caught: False, and nothing inserted
add_file(tbl, file_path) ==
    IF file_path \in DOMAIN tbl
    THEN [table |-> tbl, value |-> FALSE]
    ELSE [table |-> tbl @@ (file_path :> [status |-> "pending_scan",
                                          processing_file_path |-> NONE,
                                          output_files |-> NONE,
                                          notes |-> NONE]),
          value |-> TRUE]

\* update_file_status: every column but the key is overwritten
update_file_status(tbl, file_path, status, processing_path, output_files, notes) ==
    IF file_path \notin DOMAIN tbl THEN tbl
    ELSE [tbl EXCEPT ![file_path] =
            [status |-> status,
             processing_file_path |-> processing_path,
             output_files |-> IF output_files # NONE
                              THEN json_dumps(output_files) ELSE NONE,
             notes |-> notes]]

DbAddFile(file_path) ==
    /\ last_call' = [op |-> "add_file", file_path |-> file_path,
                     result |-> Returns(add_file(media_files, file_path).value)]
    /\ media_files' = add_file(media_files, file_path).table
    /\ UNCHANGED <<ledger, files, SSH_KEY_PATH, pc, skip, job_data, res, written,
                   calls, absent, caller, runs, orch>>

DbUpdateFileStatus(file_path, status, d) ==
    /\ last_call' = [op |-> "update_file_status", file_path |-> file_path,
                     status |-> status, details |-> d, result |-> Returns(NONE)]
    /\ media_files' = update_file_status(media_files, file_path, status,
                                         d.processing_path, d.output_files, d.notes)
    /\ UNCHANGED <<ledger, files, SSH_KEY_PATH, pc, skip, job_data, res, written,
                   calls, absent, caller, runs, orch>>

MediaNext ==
    \/ \E f \in MediaPaths : DbAddFile(f)
    \/ \E f \in MediaPaths, st \in MediaStatuses, d \in MediaDetails :
            DbUpdateFileStatus(f, st, d)

MediaSpec == Init /\ [][MediaNext]_vars

----------------------------------------------------------------------------
(* Vocabulary of the properties *)

Stages == <<"TRANSFERRING_IN", "BACKUP_SOURCE", "PROCESSING", "TRANSFERRING_OUT">>

Working(k) == Stages[k]
Complete(k) == Stages[k] \o "_COMPLETE"
Failed(k) == Stages[k] \o "_FAILED"

IsFailed(status) == \E k \in 1..4 : status = Failed(k)
Terminal(status) == status = "COMPLETED" \/ IsFailed(status)

\* the stage a status belongs to (COMPLETED comes after the four stages)
StageOf(status) ==
    IF status = "COMPLETED" THEN 5
    ELSE CHOOSE k \in 1..4 : status \in {Working(k), Complete(k), Failed(k)}

\* a pipeline run for j has ended / has ended and had found a row for j
Ended(j) == pc[j] \in {"done", "raised"}
RanOn(j) == Ended(j) /\ job_data[j] # EmptyRow

\* the external operation of a call failed, by the operation's own criterion:
\* a transfer or a transcode that does not exit 0, a remote copy that does
\* not exit 0 or writes to stderr
OpFailed(c) ==
    IF c.stage = "BACKUP_SOURCE"
    THEN ~(c.o.kind = "exit0" /\ c.o.stderr = <<>>)
    ELSE c.o.kind # "exit0"

\* stage k failed in the current run of j
StageFailed(j, k) ==
    \/ \E i \in 1..Len(calls[j]) : calls[j][i].stage = Stages[k] /\ OpFailed(calls[j][i])
    \/ k = 3 /\ absent[j] # "no"

Range(seq) == {seq[i] : i \in 1..Len(seq)}

----------------------------------------------------------------------------
(* C1: in a run on an existing job, once stage k has failed no status of a
   later stage (working, _COMPLETE, _FAILED or COMPLETED) is written by that
   run, and when the run has ended the job's status is stage k's _FAILED. *)
C1_FailFast ==
    \A j \in DOMAIN ledger : \A k \in 1..4 :
        (pc[j] # "idle" /\ job_data[j] # EmptyRow /\ StageFailed(j, k)) =>
            /\ \A s \in Range(written[j]) : StageOf(s) <= k
            /\ Ended(j) => pc[j] = "done" /\ ledger[j].status = Failed(k)

C1_Witness ==
    \E j \in DOMAIN ledger :
        /\ RanOn(j) /\ StageFailed(j, 4)
        /\ ledger[j].status = "TRANSFERRING_OUT_FAILED"

\* the four external operations of the current run of j all ran and
\* succeeded, and the transcoder's output file was there
AllFourSucceeded(j) ==
    /\ Len(calls[j]) = 4
    /\ \A i \in 1..4 : calls[j][i].stage = Stages[i] /\ ~OpFailed(calls[j][i])
    /\ absent[j] = "no"

(* C2: a run on a freshly created job in which all four external operations
   succeed and the transcoder's output file exists ends with status
   COMPLETED and progress_percent 100. *)
C2_Original ==
    \A j \in DOMAIN ledger :
        (RanOn(j) /\ job_data[j].status = "SUBMITTED" /\ AllFourSucceeded(j)) =>
            ledger[j].status = "COMPLETED" /\ ledger[j].progress_percent = 100

(* C3: once a stage's external operation has failed, or the transcoder has
   left no output file, the run invokes no external operation of a later
   stage; a run whose transfer-in failed has made exactly one call when it
   ends. *)
C3_NoLaterOperation ==
    \A j \in JobIds :
        /\ \A i \in 1..Len(calls[j]) : OpFailed(calls[j][i]) => i = Len(calls[j])
        /\ absent[j] # "no" => \A i \in 1..Len(calls[j]) : StageOf(calls[j][i].stage) <= 3
        /\ (Ended(j) /\ calls[j] # <<>> /\ OpFailed(calls[j][1])) => Len(calls[j]) = 1

C3_Witness ==
    \E j \in DOMAIN ledger :
        /\ RanOn(j) /\ Len(calls[j]) = 1
        /\ calls[j][1].stage = "TRANSFERRING_IN" /\ OpFailed(calls[j][1])
        /\ ledger[j].status = "TRANSFERRING_IN_FAILED"

IsCompleteStatus(status) == \E k \in 1..4 : status = Complete(k)

(* C4: whenever a run has written COMPLETED, the _COMPLETE statuses it wrote
   before are exactly those of the four stages, in stage order, and it wrote
   no _FAILED status before. *)
C4_CompletedAfterAllStages ==
    \A j \in JobIds : \A i \in 1..Len(written[j]) :
        written[j][i] = "COMPLETED" =>
            LET earlier == SubSeq(written[j], 1, i - 1)
            IN  /\ SelectSeq(earlier, IsCompleteStatus)
                        = <<Complete(1), Complete(2), Complete(3), Complete(4)>>
                /\ \A s \in Range(earlier) : ~IsFailed(s)

C4_Witness ==
    \E j \in DOMAIN ledger :
        /\ RanOn(j) /\ Last(written[j]) = "COMPLETED"
        /\ ledger[j].status = "COMPLETED"

\* the documented state graph (section 4.4 of the specification)
Edge(a, b) ==
    \/ a = "SUBMITTED" /\ b = Working(1)
    \/ \E k \in 1..4 : a = Working(k) /\ b \in {Complete(k), Failed(k)}
    \/ \E k \in 1..3 : a = Complete(k) /\ b = Working(k + 1)
    \/ a = Complete(4) /\ b = "COMPLETED"

(* C5: within one run, every change of a job's status is an edge of the
   documented state graph.  (The change is one between two statuses of the
   same run, or the first change of a job that is still SUBMITTED.) *)
C5_Original ==
    [][\A j \in DOMAIN ledger :
        (/\ ledger'[j].status # ledger[j].status
         /\ (written[j] # <<>> \/ ledger[j].status = "SUBMITTED"))
            => Edge(ledger[j].status, ledger'[j].status)]_vars

(* C6, as claimed: once a job's status is a _FAILED status, nothing changes
   that job's status again, a further run_job_pipeline included. *)
C6_Original ==
    [][\A j \in DOMAIN ledger :
        IsFailed(ledger[j].status) => ledger'[j].status = ledger[j].status]_vars

(* C6, amended: a _FAILED status is never changed by the run that wrote it
   nor by a run for another id; it is changed only by the first write of a
   further run_job_pipeline for that id, which sets it to TRANSFERRING_IN. *)
C6_FailedUntilRerun ==
    [][\A j \in DOMAIN ledger :
        (IsFailed(ledger[j].status) /\ ledger'[j].status # ledger[j].status) =>
            /\ written[j] = <<>>
            /\ written'[j] = <<"TRANSFERRING_IN">>
            /\ ledger'[j].status = "TRANSFERRING_IN"]_vars

C6_Witness ==
    \E j \in DOMAIN ledger :
        /\ IsFailed(ledger[j].status)
        /\ pc[j] = "in_0" /\ written[j] = <<>> /\ runs = 2

(* C7: a create_new_job call has created the row of its id; when it is over
   it has returned the id if and only if the job's status is terminal
   (COMPLETED or a _FAILED status), so it returns only after a terminal
   status and does return both on success and on a failed stage. *)
C7_ReturnsAfterTerminal ==
    \A j \in JobIds :
        caller[j] # "none" =>
            /\ j \in DOMAIN ledger
            /\ caller[j] \in {"returned", "raised"} =>
                    (caller[j] = "returned" <=> Terminal(ledger[j].status))

C7_Witness ==
    \E j \in DOMAIN ledger :
        /\ caller[j] = "returned"
        /\ IsFailed(ledger[j].status)
        /\ written[j] # <<>>

(* C8: every run on an existing job ends with the job's status terminal and
   without an exception reaching the caller. *)
C8_Original ==
    \A j \in DOMAIN ledger :
        RanOn(j) => pc[j] = "done" /\ Terminal(ledger[j].status)

(* C9: when the transcoder exited 0 and its output file was missing (at the
   executor's check or at the rename step), transfer-out is never invoked and
   the run ends with status PROCESSING_FAILED. *)
C9_MissingArtifact ==
    \A j \in DOMAIN ledger :
        (job_data[j] # EmptyRow /\ absent[j] # "no") =>
            /\ Last(calls[j]).stage = "PROCESSING" /\ Last(calls[j]).o.kind = "exit0"
            /\ \A i \in 1..Len(calls[j]) : calls[j][i].stage # "TRANSFERRING_OUT"
            /\ Ended(j) => pc[j] = "done" /\ ledger[j].status = "PROCESSING_FAILED"

C9_Witness ==
    \E j \in DOMAIN ledger, k \in DOMAIN ledger :
        /\ RanOn(j) /\ absent[j] = "rename"
        /\ ledger[j].status = "PROCESSING_FAILED"
        /\ k # j
        /\ ledger[k].status = "PROCESSING_FAILED"
        /\ ledger[k].notes = FfmpegMissingNote(ledger[k].output_file)

(* C10: when the backup operation has just finished, it has recorded
   BACKUP_SOURCE_COMPLETE and the pipeline goes on exactly when the process
   exited 0 with empty stderr; otherwise it has recorded BACKUP_SOURCE_FAILED
   and the run is over, and when the process did exit, the note holds the
   command line and the stderr text. *)
C10_BackupClassification ==
    \A j \in DOMAIN ledger :
        (/\ calls[j] # <<>>
         /\ Last(calls[j]).stage = "BACKUP_SOURCE"
         /\ pc[j] \in {"ff_0", "done"}) =>
            LET c == Last(calls[j])
                clean == c.o.kind = "exit0" /\ c.o.stderr = <<>>
            IN  /\ clean <=> Last(written[j]) = "BACKUP_SOURCE_COMPLETE"
                /\ clean <=> pc[j] = "ff_0"
                /\ ~clean =>
                    /\ Last(written[j]) = "BACKUP_SOURCE_FAILED"
                    /\ ledger[j].status = "BACKUP_SOURCE_FAILED"
                    /\ pc[j] = "done"
                    /\ c.o.kind \in {"exit0", "nonzero"} =>
                        /\ Contains(ledger[j].notes, JoinSpace(c.cmd))
                        /\ Contains(ledger[j].notes, c.o.stderr)

C10_Witness ==
    \E j \in DOMAIN ledger :
        /\ RanOn(j)
        /\ Last(calls[j]).stage = "BACKUP_SOURCE"
        /\ Last(calls[j]).o.kind = "exit0" /\ Last(calls[j]).o.stderr = ErrText
        /\ ledger[j].status = "BACKUP_SOURCE_FAILED"
        /\ Contains(ledger[j].notes, ErrText)

TransferStages == {"TRANSFERRING_IN", "TRANSFERRING_OUT"}

\* call i of the current run of j has returned to the pipeline
Returned(j, i) == ~(i = Len(calls[j]) /\ pc[j] \in {"in_2", "bk_2", "ff_2", "out_2"})

(* C11: a transfer for stage S is invoked only after the run has recorded
   status S; once it has returned, the next status recorded is S_COMPLETE
   and the run goes on when the process exited 0, and when it exited
   non-zero the next status is S_FAILED, the run is over with that status,
   and the note holds the failing command line and the stderr text. *)
C11_TransferClassification ==
    \A j \in DOMAIN ledger : \A i \in 1..Len(calls[j]) :
        LET c == calls[j][i]
            S == c.stage
        IN  S \in TransferStages =>
              \E p \in 1..Len(written[j]) :
                /\ written[j][p] = S
                /\ Returned(j, i) =>
                    /\ Len(written[j]) > p
                    /\ c.o.kind = "exit0" =>
                        /\ written[j][p + 1] = S \o "_COMPLETE"
                        /\ ~(pc[j] = "done" /\ Len(written[j]) = p + 1)
                    /\ c.o.kind = "nonzero" =>
                        /\ written[j][p + 1] = S \o "_FAILED"
                        /\ Len(written[j]) = p + 1
                        /\ pc[j] = "done"
                        /\ ledger[j].status = S \o "_FAILED"
                        /\ Contains(ledger[j].notes, JoinSpace(c.cmd))
                        /\ Contains(ledger[j].notes, c.o.stderr)

C11_Witness ==
    \E j \in DOMAIN ledger :
        /\ RanOn(j) /\ Len(calls[j]) = 4
        /\ calls[j][1].o.kind = "exit0"
        /\ calls[j][4].stage = "TRANSFERRING_OUT" /\ calls[j][4].o.kind = "nonzero"
        /\ ledger[j].status = "TRANSFERRING_OUT_FAILED"
        /\ Contains(ledger[j].notes, <<"rsync">>)
        /\ Contains(ledger[j].notes, ErrText)

(* C12: the external operations of a run start in the order transfer-in,
   remote backup, transcode, transfer-out, and whenever the operation of
   stage k+1 has started the run has recorded stage k's _COMPLETE status. *)
C12_StageOrder ==
    \A j \in JobIds : \A i \in 1..Len(calls[j]) :
        /\ i <= 4 /\ calls[j][i].stage = Stages[i]
        /\ i > 1 => \E p \in 1..Len(written[j]) : written[j][p] = Complete(i - 1)

C12_Witness ==
    \E j \in DOMAIN ledger :
        /\ pc[j] = "out_2" /\ Len(calls[j]) = 4
        /\ Complete(3) \in Range(written[j])
        /\ Complete(4) \notin Range(written[j])

\* the step is the start of run_job_pipeline(j) by a direct caller
Invoked(j) == runs' = runs + 1 /\ pc'[j] # "idle" /\ caller'[j] = "none"

(* C13: run_job_pipeline for an id that has no row returns at once: no row
   is changed or created, no file is touched and no external operation is
   invoked. *)
C13_UnknownIdNoEffect ==
    [][\A j \in JobIds :
        (Invoked(j) /\ j \notin DOMAIN ledger) =>
            /\ ledger' = ledger /\ files' = files
            /\ pc'[j] = "done"
            /\ calls'[j] = <<>> /\ written'[j] = <<>>]_vars

C13_Witness ==
    \E j \in JobIds :
        /\ j \notin DOMAIN ledger
        /\ pc[j] = "done" /\ job_data[j] = EmptyRow /\ runs > 0

\* the step is a direct call op on the ledger for job_id
DirectCall(op, job_id) ==
    /\ last_call' # last_call
    /\ last_call'.op = op
    /\ last_call'.job_id = job_id

(* C14: create_job for an id that has no row returns normally, and a get_job
   for that id right after it returns a row with status SUBMITTED, progress
   0, and the source path, output path and conversion spec given to
   create_job. *)
C14_CreateThenGet ==
    [][\A j \in LedgerIds :
        /\ (DirectCall("create_job", j) /\ j \notin DOMAIN ledger) =>
                last_call'.result = Returns(NONE)
        /\ (/\ last_call.op = "create_job" /\ last_call.job_id = j
            /\ last_call.result = Returns(NONE)
            /\ DirectCall("get_job", j)) =>
                LET row == last_call'.result.value
                IN  /\ last_call'.result.raised = "no"
                    /\ row.status = "SUBMITTED"
                    /\ row.progress_percent = 0
                    /\ row.input_file = last_call.input_file
                    /\ row.output_file = last_call.output_file
                    /\ row.ffmpeg_command = last_call.ffmpeg_command]_vars

C14_Witness ==
    /\ last_call.op = "get_job"
    /\ last_call.job_id \in DOMAIN ledger
    /\ last_call.result.value = ledger[last_call.job_id]
    /\ last_call.result.value.status = "SUBMITTED"
    /\ last_call.result.value.input_file # last_call.result.value.output_file

(* C15: get_job for an id that has no row returns the empty row, raises
   nothing and leaves the ledger as it was. *)
C15_GetUnknown ==
    [][\A j \in LedgerIds :
        (DirectCall("get_job", j) /\ j \notin DOMAIN ledger) =>
            /\ last_call'.result = Returns(EmptyRow)
            /\ ledger' = ledger]_vars

C15_Witness ==
    /\ last_call.op = "get_job"
    /\ last_call.job_id \notin DOMAIN ledger
    /\ ledger # <<>>
    /\ last_call.result = Returns(EmptyRow)

(* C16: update_job_status on an existing row sets the status; it sets the
   progress and the notes to the supplied value when one is supplied and
   keeps the previous value when it is omitted; a supplied note replaces the
   previous note; the other columns and the other rows keep their values. *)
C16_UpdateFields ==
    [][\A j \in LedgerIds :
        (DirectCall("update_job_status", j) /\ j \in DOMAIN ledger) =>
            /\ DOMAIN ledger' = DOMAIN ledger
            /\ ledger'[j].status = last_call'.status
            /\ ledger'[j].progress_percent =
                    IF last_call'.progress = NoArg
                    THEN ledger[j].progress_percent ELSE last_call'.progress[1]
            /\ ledger'[j].notes =
                    IF last_call'.notes = NoArg
                    THEN ledger[j].notes ELSE last_call'.notes[1]
            /\ ledger'[j].input_file = ledger[j].input_file
            /\ ledger'[j].output_file = ledger[j].output_file
            /\ ledger'[j].ffmpeg_command = ledger[j].ffmpeg_command
            /\ \A k \in DOMAIN ledger \ {j} : ledger'[k] = ledger[k]]_vars

C16_Witness ==
    /\ last_call.op = "update_job_status"
    /\ last_call.job_id \in DOMAIN ledger
    /\ last_call.progress = NoArg /\ last_call.notes = NoArg
    /\ ledger[last_call.job_id].status = last_call.status
    /\ ledger[last_call.job_id].progress_percent = 50
    /\ ledger[last_call.job_id].notes = <<"Job finished.">>

(* C17, as claimed: update_job_status for an id that has no row fails with a
   JobNotFound error. *)
C17_Original ==
    [][\A j \in LedgerIds :
        (DirectCall("update_job_status", j) /\ j \notin DOMAIN ledger) =>
            last_call'.result = Raises("JobNotFound")]_vars

(* C17, amended: update_job_status for an id that has no row raises nothing
   and changes nothing: no row is created and no row is changed. *)
C17_UpdateUnknownIsNoOp ==
    [][\A j \in LedgerIds :
        (DirectCall("update_job_status", j) /\ j \notin DOMAIN ledger) =>
            /\ last_call'.result = Returns(NONE)
            /\ ledger' = ledger]_vars

C17_Witness ==
    /\ last_call.op = "update_job_status"
    /\ last_call.job_id \notin DOMAIN ledger
    /\ ledger # <<>>
    /\ last_call.result = Returns(NONE)

(* C18: create_job for an id that has a row raises the database's
   duplicate-key error and leaves the ledger, the existing row included, as
   it was; each id has at most one row. *)
C18_DuplicateCreate ==
    [][\A j \in LedgerIds :
        (DirectCall("create_job", j) /\ j \in DOMAIN ledger) =>
            /\ last_call'.result = Raises("IntegrityError")
            /\ ledger' = ledger]_vars

C18_Witness ==
    /\ last_call.op = "create_job"
    /\ last_call.result = Raises("IntegrityError")
    /\ ledger[last_call.job_id].input_file # last_call.input_file
    /\ ledger[last_call.job_id].status = "COMPLETED"

\* name begins with the job id followed by an underscore
HasIdPrefix(job_id, name) ==
    /\ Len(name) > Len(job_id)
    /\ \A i \in 1..Len(job_id) : name[i] = job_id[i]
    /\ name[Len(job_id) + 1] = "_"

\* what is left of name after its first n characters
Remainder(name, n) == [i \in 1..(Len(name) - n) |-> name[i + n]]

(* C19: the path the resolver returns is the destination directory, a "/",
   and the clean name: the output file's name without its leading
   "<job id>_" when the name begins with the job id followed by an
   underscore, and the name unchanged otherwise. *)
C19_PrefixStripping ==
    (last_call.op = "_get_final_remote_path" /\ last_call.result # Pending) =>
        LET id == last_call.job_id
            name == last_call.name
            clean == IF HasIdPrefix(id, name)
                     THEN Remainder(name, Len(id) + 1) ELSE name
        IN  last_call.result =
                Returns(last_call.remote_push_destination \o <<"/">> \o clean)

C19_Witness ==
    /\ last_call.op = "_get_final_remote_path"
    /\ last_call.job_id = <<"abc123">>
    /\ last_call.dir # <<>>
    /\ last_call.name = <<"abc123", "_", "movie.mp4">>
    /\ last_call.result =
            Returns(last_call.remote_push_destination \o <<"/", "movie.mp4">>)

\* what the transcoder of job j makes of j's own source
OwnArtifact(j) == <<"enc:">> \o j \o <<":">> \o ledger[j].input_file

\* the transcoder call of the current run of j left an output file
TranscoderMade(j) ==
    \E i \in 1..Len(calls[j]) : calls[j][i].stage = "PROCESSING" /\ calls[j][i].o.made

\* the run of j sees what it sees when it runs alone: its row holds the last
\* status the run wrote; the temp file it pulled holds its own source until
\* the transcoder has read it; the file its transcoder made is there, with
\* its own artifact, until the run renames it; the file it pushes holds its
\* own artifact
AsIfAlone(j) ==
    LET temp == local_temp_file(job_data[j])
        uuid == local_output_file_uuid(job_data[j])
        final == local_output_file_final(job_data[j])
    IN  /\ written[j] # <<>> => ledger[j].status = Last(written[j])
        /\ pc[j] \in {"bk_0", "bk_1", "bk_2", "ff_0", "ff_1"} =>
                Exists(temp) /\ files[temp] = ledger[j].input_file
        /\ (pc[j] \in {"ff_2", "ff_3", "rn"} /\ TranscoderMade(j)) =>
                Exists(uuid) /\ files[uuid] = OwnArtifact(j)
        /\ absent[j] = "executor" => ~TranscoderMade(j)
        /\ pc[j] \in {"out_0", "out_1", "out_2", "cleanup"} =>
                Exists(final) /\ files[final] = OwnArtifact(j)

DifferentBase(j, k) ==
    basename(ledger[j].input_file) # basename(ledger[k].input_file)

(* C20: when two jobs with different ids have sources with different base
   names, a run of one, interleaved in any way with a run of the other, sees
   what it sees when it runs alone: the statuses of its row are its own, the
   files it reads hold its own data, and so its outcome is its own. *)
C20_NoInterference ==
    \A j \in ConcJobs : \A k \in ConcJobs \ {j} :
        DifferentBase(j, k) => AsIfAlone(j)

C20_Witness ==
    \E j \in ConcJobs : \E k \in ConcJobs \ {j} :
        /\ DifferentBase(j, k)
        /\ pc[j] = "out_1" /\ pc[k] = "ff_2" /\ TranscoderMade(k)
        /\ files[local_output_file_final(job_data[j])] = OwnArtifact(j)
        /\ files[local_output_file_uuid(job_data[k])] = OwnArtifact(k)

\* the run of j has got past the cleanup step
CleanedUp(j) ==
    /\ job_data[j] # EmptyRow
    /\ \/ pc[j] = "final"
       \/ written[j] # <<>> /\ Last(written[j]) = "COMPLETED"

(* C21: once a run without skip_cleanup has got past its cleanup, and so in
   every state in which its row shows the COMPLETED it wrote, the local temp
   file and the local output file (under its prefixed and its final name)
   do not exist; a run with skip_cleanup has deleted nothing: the temp file
   and the final output file are still there with the run's data. *)
C21_CleanupAtCompleted ==
    \A j \in DOMAIN ledger :
        CleanedUp(j) =>
            LET temp == local_temp_file(job_data[j])
                uuid == local_output_file_uuid(job_data[j])
                final == local_output_file_final(job_data[j])
            IN  /\ pc[j] = "done" => ledger[j].status = "COMPLETED"
                /\ ~skip[j] => ~Exists(temp) /\ ~Exists(uuid) /\ ~Exists(final)
                /\ skip[j] =>
                    /\ Exists(temp) /\ files[temp] = job_data[j].input_file
                    /\ Exists(final)
                    /\ files[final] = <<"enc:">> \o j \o <<":">> \o job_data[j].input_file

C21_Witness ==
    \E j \in DOMAIN ledger, k \in DOMAIN ledger :
        /\ j # k
        /\ pc[j] = "done" /\ written[j] # <<>> /\ Last(written[j]) = "COMPLETED"
        /\ ~skip[j]
        /\ ledger[k].status = "COMPLETED"
        /\ files = <<>>

(* C22: whatever the status of the job when run_job_pipeline is invoked, the
   first external operation of the run is the transfer-in and the first
   status the run writes is TRANSFERRING_IN. *)
C22_StartsAtStageOne ==
    \A j \in JobIds :
        /\ calls[j] # <<>> => calls[j][1].stage = "TRANSFERRING_IN"
        /\ written[j] # <<>> => written[j][1] = "TRANSFERRING_IN"
        /\ calls[j] # <<>> => written[j] # <<>>

C22_Witness ==
    \E j \in DOMAIN ledger :
        /\ job_data[j] # EmptyRow /\ job_data[j].status = "COMPLETED"
        /\ calls[j] # <<>> /\ calls[j][1].stage = "TRANSFERRING_IN"
        /\ written[j][1] = "TRANSFERRING_IN"

(* C26: PROCESSING_COMPLETE is in the ledger only when the transcoder exited
   0 and its output file exists: right after the status is written the file
   is there, and a run whose executor finds the file missing has never
   written PROCESSING_COMPLETE. *)
C26_Original ==
    \A j \in DOMAIN ledger :
        /\ (pc[j] = "ff_3" /\ ledger[j].status = "PROCESSING_COMPLETE") =>
                /\ Last(calls[j]).o.kind = "exit0"
                /\ Exists(local_output_file_uuid(job_data[j]))
        /\ absent[j] = "executor" =>
                \A i \in 1..Len(written[j]) : written[j][i] # "PROCESSING_COMPLETE"

\* the calls of the current run of j that belong to stage k
CallsOfStage(j, k) == {i \in 1..Len(calls[j]) : calls[j][i].stage = Stages[k]}

(* C30: a run invokes the external operation of each stage at most once, so
   at most four processes in all, and a run that has written COMPLETED has
   invoked each of the four exactly once. *)
C30_NoRetry ==
    \A j \in JobIds :
        /\ \A k \in 1..4 : Cardinality(CallsOfStage(j, k)) <= 1
        /\ Len(calls[j]) <= 4
        /\ (written[j] # <<>> /\ Last(written[j]) = "COMPLETED") =>
                \A k \in 1..4 : Cardinality(CallsOfStage(j, k)) = 1

C30_Witness ==
    \E j \in DOMAIN ledger :
        /\ pc[j] = "done" /\ Len(calls[j]) = 4
        /\ Last(written[j]) = "COMPLETED"
        /\ runs = 2 /\ job_data[j].status = "TRANSFERRING_OUT_FAILED"

(* C23: the transfer command starts with the transfer program and the
   flags -az, --partial, --progress, ends with the source and then the
   destination, and holds the option -e with "ssh -i <key>" between the two
   exactly when a key is configured; without a key it holds nothing else. *)
C23_RsyncCommand ==
    (last_call.op = "_build_rsync_cmd" /\ last_call.result # Pending) =>
        LET cmd == last_call.result.value
            n == Len(cmd)
            configured == SSH_KEY_PATH # NONE /\ SSH_KEY_PATH # <<>>
        IN  /\ last_call.result.raised = "no"
            /\ n >= 6
            /\ SubSeq(cmd, 1, 4) = << <<"rsync">>, <<"-az">>, <<"--partial">>,
                                      <<"--progress">> >>
            /\ cmd[n - 1] = last_call.src
            /\ cmd[n] = last_call.dest
            /\ configured <=>
                    \E i \in 5..(n - 3) :
                        cmd[i] = <<"-e">> /\ cmd[i + 1] = <<"ssh -i ">> \o SSH_KEY_PATH
            /\ n = IF configured THEN 8 ELSE 6

C23_Witness ==
    /\ last_call.op = "_build_rsync_cmd"
    /\ SSH_KEY_PATH = KeyFile
    /\ last_call.src = LOCAL_OUTPUT_DIR \o <<"/", "a.mkv">>
    /\ last_call.result =
            Returns(<< <<"rsync">>, <<"-az">>, <<"--partial">>, <<"--progress">>,
                       <<"-e">>, <<"ssh -i ", "/", "key">>,
                       last_call.src, last_call.dest >>)

\* the processes that have created the lock file and not yet removed it
Holders(o) == {p \in Procs : o[p] \in {"config", "workflow"}}

(* C24: at most one orchestrator process at a time holds the lock file, and
   only a holder runs the workflow; a process that finds the lock file
   present exits at once, without running the workflow and without removing
   the lock file. *)
C24_SingleInstance ==
    [][/\ Cardinality(Holders(orch')) <= 1
       /\ Holders(orch') # {} => lock_path \in DOMAIN files'
       /\ \A p \in Procs :
            (orch[p] = "start" /\ orch'[p] # "start" /\ Exists(lock_path)) =>
                /\ orch'[p] = "exit_busy"
                /\ files' = files]_vars

C24_Witness ==
    \E p \in Procs, q \in Procs, r \in Procs :
        /\ orch[p] = "workflow"
        /\ orch[q] = "exit_busy"
        /\ orch[r] = "exit_ok"
        /\ Exists(lock_path)

(* C25: add_file of a path that has no row inserts one row, with status
   pending_scan, and returns True; add_file of a path that has a row returns
   False and leaves the table, that row's status included, as it was. *)
C25_AddFileIdempotent ==
    [][\A f \in MediaPaths :
        (/\ last_call' # last_call
         /\ last_call'.op = "add_file" /\ last_call'.file_path = f) =>
            IF f \in DOMAIN media_files
            THEN /\ last_call'.result = Returns(FALSE)
                 /\ media_files' = media_files
            ELSE /\ last_call'.result = Returns(TRUE)
                 /\ DOMAIN media_files' = DOMAIN media_files \cup {f}
                 /\ media_files'[f].status = "pending_scan"
                 /\ \A g \in DOMAIN media_files : media_files'[g] = media_files[g]]_vars

C25_Witness ==
    /\ last_call.op = "add_file"
    /\ last_call.result = Returns(FALSE)
    /\ media_files[last_call.file_path].status = "processed"
    /\ media_files[last_call.file_path].output_files =
            <<"[", "\"", "/", "output", "/", "final.mp4", "\"", ", ",
              "\"", "/", "output", "/", "final.srt", "\"", "]">>

\* what is left of the output file's name once its "<job id>_" is stripped
CleanName(job_id, name) ==
    IF HasIdPrefix(job_id, name) THEN Remainder(name, Len(job_id) + 1) ELSE name

(* C27: once the transcode has succeeded, the file that was renamed into
   place and is handed to transfer-out lies beside the job's output file and
   bears that file's name without its leading "<job id>_", or the name itself
   when it has no such prefix. *)
C27_Original ==
    \A j \in JobIds :
        pc[j] \in {"out_0", "out_1", "out_2"} =>
            LET out == local_output_file_uuid(job_data[j])
                clean == join(dirname(out), CleanName(j, basename(out)))
            IN  /\ Exists(clean)
                /\ local_output_file_final(job_data[j]) = clean

(* C28: two jobs whose sources share a base name use one local temp path, so
   a transfer-in of one that succeeds leaves its own source in the temp copy
   of the other, whatever the other's run has reached; a run can so be
   overtaken between its transfer-in and the read of its transcode. *)
C28_TempFileRace ==
    [][\A k \in ConcJobs : \A j \in ConcJobs \ {k} :
        (/\ ~DifferentBase(j, k)
         /\ pc[k] = "in_1" /\ pc'[k] = "in_2" /\ res'[k].kind = "exit0") =>
            /\ local_temp_file(ledger[j]) = local_temp_file(ledger[k])
            /\ files'[local_temp_file(ledger[j])] = ledger[k].input_file]_vars

\* j has pulled its source and is about to transcode; k's transfer-in has
\* since replaced j's temp copy with another file
C28_Witness ==
    \E j \in ConcJobs : \E k \in ConcJobs \ {j} :
        /\ ~DifferentBase(j, k)
        /\ ledger[j].input_file # ledger[k].input_file
        /\ pc[j] = "ff_1"
        /\ pc[k] = "in_2" /\ res[k].kind = "exit0"
        /\ files[local_temp_file(job_data[j])] = ledger[k].input_file

\* the file content f came out of the transcoder of job j
MadeBy(j, f) == StartsWith(f, <<"enc:">> \o j \o <<":">>)

(* C29: of two jobs with different ids and different id-prefixed output
   paths, whether or not their sources share a base name, each finds at
   transfer-out the file its own transcoder made: the other's rename has not
   replaced it and the other's cleanup has not deleted it. *)
C29_Original ==
    \A j \in ConcJobs : \A k \in ConcJobs \ {j} :
        (/\ ledger[j].output_file # ledger[k].output_file
         /\ pc[j] \in {"out_0", "out_1"}) =>
            LET final == local_output_file_final(job_data[j])
            IN  /\ Exists(final)
                /\ MadeBy(j, files[final])

\* call i of the current run of j is a remote copy that succeeded
BackupCallSucceeded(j, i) ==
    /\ calls[j][i].stage = "BACKUP_SOURCE"
    /\ calls[j][i].o.kind = "exit0"
    /\ calls[j][i].o.stderr = <<>>

(* C31: a run invokes transfer-out, and records TRANSFERRING_OUT, only when
   the remote copy of the source succeeded earlier in the same run: its
   process exited 0 and wrote nothing to stderr, and BACKUP_SOURCE_COMPLETE
   was recorded before it. *)
C31_PushOnlyAfterBackup ==
    \A j \in JobIds :
        /\ \A i \in 1..Len(calls[j]) :
            calls[j][i].stage = "TRANSFERRING_OUT" =>
                \E k \in 1..(i - 1) : BackupCallSucceeded(j, k)
        /\ \A m \in 1..Len(written[j]) :
            written[j][m] = "TRANSFERRING_OUT" =>
                /\ \E n \in 1..(m - 1) : written[j][n] = "BACKUP_SOURCE_COMPLETE"
                /\ \E k \in 1..Len(calls[j]) : BackupCallSucceeded(j, k)

C31_Witness ==
    \E j \in JobIds :
        /\ pc[j] = "out_2"
        /\ Len(calls[j]) = 4
        /\ BackupCallSucceeded(j, 2)
        /\ calls[j][4].stage = "TRANSFERRING_OUT"
        /\ written[j][4] = "BACKUP_SOURCE_COMPLETE"

\* the configured identity, and the directory a file path lies in
Identity == RSYNC_USER \o <<"@">> \o STORAGE_HOST
DirectoryOf(path) == SubSeq(path, 1, Len(path) - 2)

(* C32: every transfer-in of a job pulls from "user@host:<source path>" into
   the local temp directory, every backup is run as user@host on the source
   path itself, and every transfer-out pushes to
   "user@host:<directory of the source path>". *)
C32_Locators ==
    \A j \in DOMAIN ledger : \A i \in 1..Len(calls[j]) :
        LET c == calls[j][i]
            n == Len(c.cmd)
            src == ledger[j].input_file
        IN  /\ c.stage = "TRANSFERRING_IN" =>
                /\ c.cmd[n - 1] = Identity \o <<":">> \o src
                /\ c.cmd[n] = LOCAL_TEMP_DIR
            /\ c.stage = "BACKUP_SOURCE" =>
                /\ c.cmd[n - 1] = Identity
                /\ c.cmd[n] = <<"cp -f '">> \o src \o <<"' '">>
                                \o ARCHIVE_ROOT_DIR \o <<"/'">>
            /\ c.stage = "TRANSFERRING_OUT" =>
                c.cmd[n] = Identity \o <<":">> \o DirectoryOf(src)

C32_Witness ==
    \E j \in DOMAIN ledger :
        /\ pc[j] = "out_2"
        /\ Len(calls[j]) = 4
        /\ ledger[j].input_file = <<"/", "remote", "/", "b.mkv">>
        /\ calls[j][1].cmd[Len(calls[j][1].cmd) - 1] =
                <<"user", "@", "host", ":", "/", "remote", "/", "b.mkv">>
        /\ calls[j][4].cmd[Len(calls[j][4].cmd)] =
                <<"user", "@", "host", ":", "/", "remote">>

(* C33: a step of the run of one job, a ledger update included, leaves the
   row of every other job as it was, field by field, however the runs of
   different jobs interleave. *)
C33_UpdatesScopedToId ==
    [][\A j \in ConcJobs :
        pc'[j] # pc[j] =>
            \A k \in DOMAIN ledger \ {j} :
                /\ k \in DOMAIN ledger'
                /\ ledger'[k] = ledger[k]]_vars

\* j has just recorded a status while the run of k is between two of its own
C33_Witness ==
    \E j \in ConcJobs : \E k \in ConcJobs \ {j} :
        /\ pc[j] = "ff_1" /\ ledger[j].status = "PROCESSING"
        /\ pc[k] = "out_1" /\ ledger[k].status = "TRANSFERRING_OUT"
        /\ ledger[k].progress_percent = 100
        /\ ledger[j].progress_percent = 0

(* C34: through every create, update, get, direct transfer and pipeline
   run, a job keeps its id and the source path, output path and conversion
   spec it was created with: create stores the values it is given, and no
   later step changes them or moves the row to another id. *)
C34_CreationValuesKept ==
    [][/\ \A j \in DOMAIN ledger :
            /\ j \in DOMAIN ledger'
            /\ ledger'[j].input_file = ledger[j].input_file
            /\ ledger'[j].output_file = ledger[j].output_file
            /\ ledger'[j].ffmpeg_command = ledger[j].ffmpeg_command
       /\ \A j \in DOMAIN ledger' \ DOMAIN ledger :
            /\ last_call'.op = "create_job" /\ last_call'.job_id = j
            /\ ledger'[j].input_file = last_call'.input_file
            /\ ledger'[j].output_file = last_call'.output_file
            /\ ledger'[j].ffmpeg_command = last_call'.ffmpeg_command]_vars

\* the job was created, updated, run to COMPLETED and updated again
C34_Witness ==
    /\ last_call.op = "update_job_status" /\ last_call.job_id = ServiceJob
    /\ pc[ServiceJob] = "done"
    /\ written[ServiceJob] # <<>> /\ Last(written[ServiceJob]) = "COMPLETED"
    /\ ledger[ServiceJob].progress_percent = 50
    /\ ledger[ServiceJob].input_file = <<"/", "remote", "/", "b.mkv">>
    /\ ledger[ServiceJob].output_file =
            <<"/", "tmp", "/", "output", "/", "j1", "_", "b.mkv">>
    /\ ledger[ServiceJob].ffmpeg_command = ConversionSpec

(* C35: no step removes a row from the ledger, and a row is added only by a
   create_job call, for the id that call was given: no update, lookup,
   transfer or pipeline run adds one, for a known id or an unknown one. *)
C35_IdsGrowOnlyByCreate ==
    [][/\ DOMAIN ledger \subseteq DOMAIN ledger'
       /\ DOMAIN ledger' # DOMAIN ledger =>
            \E j \in ServiceIds :
                /\ DirectCall("create_job", j)
                /\ DOMAIN ledger' = DOMAIN ledger \cup {j}]_vars

\* a transfer was run, and succeeded, for an id that has no row
C35_Witness ==
    /\ last_call.op = "_run_rsync_transfer"
    /\ last_call.job_id = UnknownId
    /\ last_call.result = Returns(TRUE)
    /\ Exists(join(LOCAL_TEMP_DIR, <<"a.mkv">>))
    /\ DOMAIN ledger = {ServiceJob}

(* C36: in the first pipeline run of a job, a row whose status is
   PROCESSING_FAILED never shows a progress of 100 percent. *)
C36_Original ==
    \A j \in DOMAIN ledger :
        (runs = 1 /\ job_data[j] # EmptyRow /\ ledger[j].status = "PROCESSING_FAILED") =>
            ledger[j].progress_percent # 100

(* C37: a transfer-in or transfer-out, run by the pipeline or called
   directly, successful or not, changes nothing of its job's row but the
   status and the notes: the progress stays at the value it had before, and
   so do the paths and the conversion spec. *)
C37_TransferKeepsProgress ==
    [][\A j \in DOMAIN ledger :
        (\/ DirectCall("_run_rsync_transfer", j)
         \/ /\ pc[j] \in {"in_0", "in_1", "in_2", "out_0", "out_1", "out_2"}
            /\ pc'[j] # pc[j]) =>
            /\ j \in DOMAIN ledger'
            /\ ledger'[j] = [ledger[j] EXCEPT !.status = ledger'[j].status,
                                              !.notes = ledger'[j].notes]
            /\ ledger'[j].progress_percent = ledger[j].progress_percent]_vars

\* a direct transfer-in succeeded for a job whose progress was 50
C37_Witness ==
    /\ last_call.op = "_run_rsync_transfer"
    /\ last_call.job_id = ServiceJob
    /\ last_call.result = Returns(TRUE)
    /\ ServiceJob \in DOMAIN ledger
    /\ ledger[ServiceJob].status = "TRANSFERRING_IN_COMPLETE"
    /\ ledger[ServiceJob].progress_percent = 50

\* no external process of the current run of j failed: each one that ran
\* exited 0, wrote nothing to stderr and left its file; only the remote copy
\* may have ended without a process having run
NoProcessFailed(j) ==
    \A i \in 1..Len(calls[j]) :
        LET c == calls[j][i]
        IN  /\ c.o.kind # "nonzero"
            /\ c.o.stderr = <<>>
            /\ c.o.kind = "exc" => c.stage = "BACKUP_SOURCE"
            /\ c.stage \in {"TRANSFERRING_IN", "PROCESSING", "TRANSFERRING_OUT"}
                    => c.o.made

(* C38: with no signing key configured, a run in which no external process
   fails passes the backup stage and ends with COMPLETED; and a run whose
   backup stage fails ends with BACKUP_SOURCE_FAILED recorded, not with the
   row left at BACKUP_SOURCE. *)
C38_Original ==
    \A j \in DOMAIN ledger :
        (SSH_KEY_PATH = NONE /\ job_data[j] # EmptyRow /\ pc[j] = "done"
            /\ written[j] # <<>>) =>
            /\ (NoProcessFailed(j) /\ absent[j] = "no") =>
                    Last(written[j]) = "COMPLETED"
            /\ ledger[j].status # "BACKUP_SOURCE"

\* the lock file is there
Locked == lock_path \in DOMAIN files

(* C39: a process that has acquired the lock comes to its exit, whether the
   configuration fails to load, the workflow ends or the workflow raises,
   and has removed the lock file by then: the file is there only while some
   process holds it, so a process started afterwards finds none. *)
C39_LockReleased ==
    /\ [](Locked => Holders(orch) # {})
    /\ \A p \in Procs :
        (orch[p] \in {"config", "workflow"}) ~>
            (orch[p] \in {"exit_ok", "exit_error"} /\ p \notin Holders(orch))

\* one process has run its workflow and exited, another, started afterwards,
\* holds the lock
C39_Witness ==
    \E p \in Procs : \E q \in Procs \ {p} :
        /\ orch[p] = "exit_ok"
        /\ orch[q] = "workflow"
        /\ Locked

====
